---- MODULE Spec2Model ----
(***************************************************************************)
(* StateFlow workflow engine: WorkflowGraph (app/engine/graph.py),         *)
(* WorkflowState (app/engine/state.py), FunctionNode (app/engine/node.py)  *)
(* and WorkflowExecutor.execute (app/engine/executor.py).                  *)
(*                                                                         *)
(* Python objects that are shared by reference (the nested list held      *)
(* under the state key "issues") live in `heap`; a state dictionary holds  *)
(* the address of the list, so that a shallow copy of the dictionary       *)
(* shares the list with the original, as dict.copy() does.                 *)
(***************************************************************************)
EXTENDS Integers, Sequences, FiniteSets, TLC

VARIABLES graph, max_steps, execution_log, heap, pc, initial_state, state,
          current_node_name, step_number, state_before, error, result,
          invoked, logged, findings, call, first_added, last_set,
          run_id, loop, active_connections, tasks, handed, received,
          workflow_run, plain, sending, delivered, runs, db_graphs

\* graph              the WorkflowGraph: [nodes, edges, start_node]
\* max_steps          WorkflowExecutor.max_steps
\* execution_log      WorkflowExecutor.execution_log, a list of ExecutionStep
\* heap               the list objects the state dictionaries refer to
\* pc                 where the call of execute stands: "idle" before the
\*                    first call, "validating", "running" (at the head of the
\*                    while loop), "routing" (node done, get_next_node not yet
\*                    called), "completed" (returned) or "failed" (raised)
\* initial_state      the argument of execute
\* state              the local `state` of execute (the data of the
\*                    WorkflowState), current_node_name, step_number and
\*                    state_before its other locals
\* error              the message of the ValueError execute raised, or None
\* result             the dictionary execute returned, or None
\* invoked            history: the nodes whose execute was called in this call
\* logged             history: for each entry of execution_log, the content
\*                    its two snapshots had when they were taken
\* findings           the list graph.validate() returned, when it was the
\*                    last call on the graph; <<>> otherwise
\* call               the last call of add_node, add_edge or set_start_node:
\*                    [op, raised], raised the ValueError message or None
\* first_added        history: the name of the first node add_node stored
\* last_set           history: the name of the last set_start_node that
\*                    did not raise, None if there was none
\* sending            the frame of a send_log call of the connection
\*                    manager: where it stands, the run id, the connections
\*                    it has visited, and what happened to the set meanwhile
\* delivered          the connections whose send_json of that call returned
\* runs               two executors that run side by side, one record each
\* db_graphs          the rows of the table graphs: [nodes, edges], each a
\*                    JSON text
vars == <<graph, max_steps, execution_log, heap, pc, initial_state, state,
          current_node_name, step_number, state_before, error, result,
          invoked, logged, findings, call, first_added, last_set,
          run_id, loop, active_connections, tasks, handed, received,
          workflow_run, plain, sending, delivered, runs, db_graphs>>

\* the variables of the executor and of a call of execute
exec_vars == <<max_steps, execution_log, heap, pc, initial_state, state,
               current_node_name, step_number, state_before, error, result,
               invoked, logged>>
\* the variables about the construction of the graph
build_vars == <<findings, call, first_added, last_set>>
\* the variables of the observer side: event loop, connection manager,
\* run record, and the run without observer
obs_vars == <<run_id, loop, active_connections, tasks, handed, received,
              workflow_run, plain>>
\* the variables of a call of send_log in progress (sending: the frame of
\* the call, delivered: the connections whose send_json returned), and
\* the executors that run side by side (runs)
more_vars == <<sending, delivered, runs, db_graphs>>

(* ---------------------------- bounds ---------------------------------- *)
\* most edges a graph under construction gets
MaxEdges == 2
\* largest max_steps an executor is constructed with
MaxSteps == 5
\* largest max_steps of an executor that streams to observers
RunSteps == 3
\* largest max_iterations value of an initial state
MaxN == 2
\* no run of the executor gets this far: max_steps <= MaxSteps < StepCap
StepCap == MaxSteps + 2

(* ---------------------------- values ---------------------------------- *)
None == "None"
Raise == "Raise"
EmptyMap == [k \in {} |-> 0]

\* dict with key k set to v
Put(d, k, v) == [x \in DOMAIN d \cup {k} |-> IF x = k THEN v ELSE d[x]]
\* dict without key k
Del(d, k) == [x \in DOMAIN d \ {k} |-> d[x]]

\* addresses of the heap objects a dictionary refers to
Refs(d) == IF "issues" \in DOMAIN d THEN {d["issues"]} ELSE {}
\* the content of a dictionary: nested objects read through the heap
Deep(d, h) == [k \in DOMAIN d |-> IF k = "issues" THEN h[d[k]] ELSE d[k]]
\* a new object gets the smallest address not in use
Alloc(h) == CHOOSE a \in 1..(Cardinality(DOMAIN h) + 1) :
               a \notin DOMAIN h /\ \A b \in 1..(a - 1) : b \in DOMAIN h
\* objects no reference leads to are freed
Collect(h, roots) == [a \in DOMAIN h \cap roots |-> h[a]]

(* ------------------------- WorkflowState ------------------------------ *)
\* to_dict that leaves out the keys whose value is None
to_dict_exclude_none(data) ==
    [k \in {x \in DOMAIN data : data[x] # <<"null">>} |-> data[k]]

\* WorkflowState.to_dict: self.data.copy(), a shallow copy
to_dict(data) == [k \in DOMAIN data |-> data[k]]
\* WorkflowState.from_dict: cls(data=data)
from_dict(d) == [k \in DOMAIN d |-> d[k]]

(* --------------------------- node functions --------------------------- *)
\* the functions the nodes wrap (function(state_dict) -> dict); each result
\* is [raised, data, heap]
fn_count(d, h) ==
    [raised |-> None,
     data |-> Put(d, "iterations",
                  (IF "iterations" \in DOMAIN d THEN d["iterations"] ELSE 0) + 1),
     heap |-> h]

fn_append(d, h) ==
    IF "issues" \in DOMAIN d
    THEN [raised |-> None, data |-> d,
          heap |-> [h EXCEPT ![d["issues"]] = Append(@, 1)]]
    ELSE [raised |-> "KeyError", data |-> d, heap |-> h]

fn_drop(d, h) ==
    [raised |-> None, data |-> Del(d, "iterations"), heap |-> h]

fn_fail(d, h) ==
    [raised |-> "RuntimeError", data |-> d,
     heap |-> IF "issues" \in DOMAIN d
              THEN [h EXCEPT ![d["issues"]] = Append(@, 1)] ELSE h]

NodeNames == {"count", "append", "drop", "fail"}

Function(fn, d, h) ==
    CASE fn = "count" -> fn_count(d, h)
      [] fn = "append" -> fn_append(d, h)
      [] fn = "drop" -> fn_drop(d, h)
      [] fn = "fail" -> fn_fail(d, h)

\* execute that merges the function's result into the state it had
node_execute_merge(fn, data, h) ==
    LET r == Function(fn, to_dict(data), h)
    IN  [raised |-> r.raised,
         data |-> IF r.raised = None
                  THEN [k \in DOMAIN data \cup DOMAIN r.data |->
                          IF k \in DOMAIN r.data THEN r.data[k] ELSE data[k]]
                  ELSE data,
         heap |-> r.heap]

\* FunctionNode.execute: state_dict = state.to_dict(); result =
\* self.function(state_dict); return WorkflowState.from_dict(result)
node_execute(fn, data, h) ==
    LET r == Function(fn, to_dict(data), h)
    IN  [raised |-> r.raised,
         data |-> IF r.raised = None THEN from_dict(r.data) ELSE data,
         heap |-> r.heap]

(* ---------------------------- WorkflowGraph --------------------------- *)
\* the condition strings of the edges
LT == "iterations < max_iterations"
GE == "iterations >= max_iterations"
\* a condition that calls a method of a value of the state
NoteLT == "issues.append(1) or iterations < max_iterations"

\* the conditions with < read as <=
eval_le(cond, d) ==
    IF cond = NoteLT /\ "issues" \notin DOMAIN d THEN Raise
    ELSE IF "iterations" \notin DOMAIN d \/ "max_iterations" \notin DOMAIN d
    THEN Raise
    ELSE IF cond \in {LT, NoteLT}
         THEN (IF d["iterations"] <= d["max_iterations"] THEN "true" ELSE "false")
         ELSE (IF d["iterations"] >= d["max_iterations"] THEN "true" ELSE "false")

\* lambda state: eval(cond, {"__builtins__": {}}, state.to_dict())
eval(cond, d) ==
    IF cond = NoteLT /\ "issues" \notin DOMAIN d THEN Raise
    ELSE IF "iterations" \notin DOMAIN d \/ "max_iterations" \notin DOMAIN d
    THEN Raise
    ELSE IF cond \in {LT, NoteLT}
         THEN (IF d["iterations"] < d["max_iterations"] THEN "true" ELSE "false")
         ELSE (IF d["iterations"] >= d["max_iterations"] THEN "true" ELSE "false")

\* the heap after the evaluation: the locals of eval are a shallow copy of
\* the state's dictionary, so a method the expression calls works on the
\* object the state refers to
eval_heap(cond, d, h) ==
    IF cond = NoteLT /\ "issues" \in DOMAIN d
    THEN [h EXCEPT ![d["issues"]] = Append(@, 1)]
    ELSE h

EmptyGraph == [nodes |-> EmptyMap, edges |-> EmptyMap, start_node |-> None]

\* if node.name in self.nodes: raise ValueError
add_node_raises(g, name) ==
    IF name \in DOMAIN g.nodes THEN "already exists in graph" ELSE None

\* the two checks of add_edge that raise ValueError
add_edge_raises(g, from_node, to_node) ==
    IF from_node \notin DOMAIN g.nodes THEN "Source node not found in graph"
    ELSE IF to_node \notin DOMAIN g.nodes
         THEN "Destination node not found in graph"
         ELSE None

\* if node_name not in self.nodes: raise ValueError
set_start_node_raises(g, node_name) ==
    IF node_name \notin DOMAIN g.nodes THEN "not found in graph" ELSE None

\* add_node that stores the node also under a name in use
add_node_overwrite(g, name, function) ==
    [g EXCEPT !.nodes = Put(@, name, function),
              !.start_node = IF @ = None THEN name ELSE @]

\* add_node that makes every node it stores the start node
add_node_restart(g, name, function) ==
    IF name \in DOMAIN g.nodes
    THEN g
    ELSE [g EXCEPT !.nodes = Put(@, name, function), !.start_node = name]

\* add_node(FunctionNode(name, function)); a call that raises leaves g
add_node(g, name, function) ==
    IF name \in DOMAIN g.nodes
    THEN g
    ELSE [g EXCEPT !.nodes = Put(@, name, function),
                   !.start_node = IF @ = None THEN name ELSE @]

\* build_workflow_graph: the node of a tool carries the tool's name
add_tool(g, name) == add_node(g, name, name)

\* add_edge that creates the list of from_node before it checks to_node
add_edge_early_list(g, from_node, to_node, condition) ==
    IF from_node \notin DOMAIN g.nodes THEN g
    ELSE LET e == IF from_node \in DOMAIN g.edges THEN g.edges
                  ELSE Put(g.edges, from_node, <<>>)
         IN  IF to_node \notin DOMAIN g.nodes
             THEN [g EXCEPT !.edges = e]
             ELSE [g EXCEPT !.edges =
                     Put(e, from_node,
                         Append(e[from_node],
                                [to |-> to_node, condition |-> condition]))]

\* add_edge that does not look for to_node among the nodes
add_edge_any_target(g, from_node, to_node, condition) ==
    IF from_node \notin DOMAIN g.nodes THEN g
    ELSE [g EXCEPT !.edges =
            Put(@, from_node,
                Append(IF from_node \in DOMAIN @ THEN @[from_node] ELSE <<>>,
                       [to |-> to_node, condition |-> condition]))]

add_edge(g, from_node, to_node, condition) ==
    IF from_node \notin DOMAIN g.nodes \/ to_node \notin DOMAIN g.nodes
    THEN g
    ELSE [g EXCEPT !.edges =
            Put(@, from_node,
                Append(IF from_node \in DOMAIN @ THEN @[from_node] ELSE <<>>,
                       [to |-> to_node, condition |-> condition]))]

set_start_node(g, node_name) ==
    IF node_name \notin DOMAIN g.nodes THEN g
    ELSE [g EXCEPT !.start_node = node_name]

\* the scan that keeps the last edge that qualifies
RECURSIVE scan_edges_last(_, _, _)
scan_edges_last(es, i, d) ==
    IF i > Len(es) THEN None
    ELSE LET rest == scan_edges_last(es, i + 1, d)
         IN  IF es[i].condition = None
             THEN (IF rest = None THEN es[i].to ELSE rest)
             ELSE LET v == eval(es[i].condition, d)
                  IN  IF v = Raise THEN Raise
                      ELSE IF v = "true" /\ rest = None THEN es[i].to
                      ELSE rest

\* the scan that takes a condition that raises for a false one
RECURSIVE scan_edges_coerce(_, _, _)
scan_edges_coerce(es, i, d) ==
    IF i > Len(es) THEN None
    ELSE IF es[i].condition = None THEN es[i].to
    ELSE IF eval(es[i].condition, d) = "true" THEN es[i].to
    ELSE scan_edges_coerce(es, i + 1, d)

RECURSIVE scan_edges(_, _, _)
scan_edges(es, i, d) ==
    IF i > Len(es) THEN None
    ELSE IF es[i].condition = None THEN es[i].to
    ELSE LET v == eval(es[i].condition, d)
         IN  IF v = Raise THEN Raise
             ELSE IF v = "true" THEN es[i].to
             ELSE scan_edges(es, i + 1, d)

\* get_next_node that reads self.edges.setdefault(current_node, [])
get_next_node_graph_setdefault(g, current_node) ==
    IF current_node \in DOMAIN g.edges THEN g
    ELSE [g EXCEPT !.edges = Put(@, current_node, <<>>)]

\* the graph after get_next_node: self.edges is a plain dict, read only
\* after `current_node not in self.edges` was tested
get_next_node_graph(g, current_node) ==
    g

get_next_node(g, current_node, data) ==
    IF current_node \notin DOMAIN g.edges THEN None
    ELSE scan_edges(g.edges[current_node], 1, to_dict(data))

\* the heap after the loop of get_next_node: every condition up to the
\* first that is true or raises has been evaluated
RECURSIVE scan_edges_heap(_, _, _, _)
scan_edges_heap(es, i, d, h) ==
    IF i > Len(es) THEN h
    ELSE IF es[i].condition = None THEN h
    ELSE LET v == eval(es[i].condition, d)
             h2 == eval_heap(es[i].condition, d, h)
         IN  IF v \in {Raise, "true"} THEN h2
             ELSE scan_edges_heap(es, i + 1, d, h2)

get_next_node_heap(g, current_node, data, h) ==
    IF current_node \notin DOMAIN g.edges THEN h
    ELSE scan_edges_heap(g.edges[current_node], 1, to_dict(data), h)

\* the keys of a dict, in the order a loop visits them
RECURSIVE ItemsOf(_)
ItemsOf(S) ==
    IF S = {} THEN <<>>
    ELSE LET x == CHOOSE y \in S : TRUE IN <<x>> \o ItemsOf(S \ {x})

\* an entry of the list validate returns: the message and the names in it
Finding(msg, names) == [msg |-> msg, nodes |-> names]

RECURSIVE edge_findings(_, _, _)
edge_findings(g, froms, i) ==
    IF i > Len(froms) THEN <<>>
    ELSE LET f == froms[i]
             es == g.edges[f]
             bad == SelectSeq(es, LAMBDA e : e.to \notin DOMAIN g.nodes)
         IN  (IF f \notin DOMAIN g.nodes
              THEN <<Finding("Edge from non-existent node", {f})>>
              ELSE <<>>)
             \o [j \in 1..Len(bad) |->
                    Finding("Edge to non-existent node", {bad[j].to})]
             \o edge_findings(g, froms, i + 1)

\* validate that takes the start node for an orphan too
validate_start_orphan(g) ==
    IF DOMAIN g.nodes = {} THEN <<Finding("Graph has no nodes", {})>>
    ELSE LET nodes_with_incoming ==
                 UNION {{g.edges[f][i].to : i \in 1..Len(g.edges[f])} :
                            f \in DOMAIN g.edges}
             orphaned == DOMAIN g.nodes \ nodes_with_incoming
         IN  (IF g.start_node = None
              THEN <<Finding("No start node set", {})>>
              ELSE IF g.start_node \notin DOMAIN g.nodes
                   THEN <<Finding("Start node not found in graph",
                                  {g.start_node})>>
                   ELSE <<>>)
             \o (IF orphaned # {}
                 THEN <<Finding("Orphaned nodes", orphaned)>> ELSE <<>>)
             \o edge_findings(g, ItemsOf(DOMAIN g.edges), 1)

\* validate that stops at its first finding
validate_first_only(g) ==
    IF DOMAIN g.nodes = {} THEN <<Finding("Graph has no nodes", {})>>
    ELSE LET nodes_with_incoming ==
                 {g.start_node} \cup
                 UNION {{g.edges[f][i].to : i \in 1..Len(g.edges[f])} :
                            f \in DOMAIN g.edges}
             orphaned == DOMAIN g.nodes \ nodes_with_incoming
             all == (IF g.start_node = None
                     THEN <<Finding("No start node set", {})>>
                     ELSE IF g.start_node \notin DOMAIN g.nodes
                          THEN <<Finding("Start node not found in graph",
                                         {g.start_node})>>
                          ELSE <<>>)
                    \o (IF orphaned # {}
                        THEN <<Finding("Orphaned nodes", orphaned)>>
                        ELSE <<>>)
                    \o edge_findings(g, ItemsOf(DOMAIN g.edges), 1)
         IN  IF all = <<>> THEN <<>> ELSE <<all[1]>>

validate(g) ==
    IF DOMAIN g.nodes = {} THEN <<Finding("Graph has no nodes", {})>>
    ELSE LET nodes_with_incoming ==
                 {g.start_node} \cup
                 UNION {{g.edges[f][i].to : i \in 1..Len(g.edges[f])} :
                            f \in DOMAIN g.edges}
             orphaned == DOMAIN g.nodes \ nodes_with_incoming
         IN  (IF g.start_node = None
              THEN <<Finding("No start node set", {})>>
              ELSE IF g.start_node \notin DOMAIN g.nodes
                   THEN <<Finding("Start node not found in graph",
                                  {g.start_node})>>
                   ELSE <<>>)
             \o (IF orphaned # {}
                 THEN <<Finding("Orphaned nodes", orphaned)>> ELSE <<>>)
             \o edge_findings(g, ItemsOf(DOMAIN g.edges), 1)

(* ------------------------ graphs under execution ---------------------- *)
\* A -> B -> C without conditions
LinearGraph ==
    add_edge(add_edge(
        add_tool(add_tool(add_tool(EmptyGraph, "count"), "append"), "drop"),
        "count", "append", None), "append", "drop", None)

\* the shape of the code review workflow: the last node of the loop body
\* counts the pass and the edge back is guarded by the pass count
LoopGraph ==
    add_edge(add_edge(
        set_start_node(add_tool(add_tool(EmptyGraph, "count"), "append"),
                       "append"),
        "append", "count", None), "count", "append", LT)

\* several edges of one node can be true at once
BranchGraph ==
    add_edge(add_edge(add_edge(
        add_tool(add_tool(add_tool(EmptyGraph, "count"), "append"), "drop"),
        "count", "append", GE), "count", "drop", LT), "count", "append", None)

FirstGraph ==
    add_edge(add_edge(add_edge(
        add_tool(add_tool(add_tool(EmptyGraph, "count"), "append"), "fail"),
        "count", "append", LT), "count", "fail", LT), "count", "fail", None)

\* the second node raises
FailGraph ==
    add_edge(add_edge(
        add_tool(add_tool(add_tool(EmptyGraph, "count"), "fail"), "append"),
        "count", "fail", None), "fail", "append", None)

\* the condition reads a key the node before it removed
DropGraph ==
    add_edge(add_edge(
        add_tool(add_tool(add_tool(EmptyGraph, "drop"), "count"), "append"),
        "drop", "count", LT), "drop", "append", None)

\* a cycle without a condition
CycleGraph ==
    add_edge(add_edge(
        add_tool(add_tool(EmptyGraph, "count"), "append"),
        "count", "append", None), "append", "count", None)

SingleGraph == add_tool(EmptyGraph, "count")

Graphs == {EmptyGraph, SingleGraph, LinearGraph, LoopGraph, BranchGraph,
           FirstGraph, FailGraph, DropGraph, CycleGraph}

\* the dictionaries a caller passes to execute; the caller's list under
\* "issues" is the object at address a
InitialStates(a) ==
    {[k \in {"issues"} \cup its \cup mx |->
        IF k = "issues" THEN a ELSE IF k = "iterations" THEN 0 ELSE n] :
        its \in {{}, {"iterations"}}, mx \in {{}, {"max_iterations"}},
        n \in 0..MaxN}

(* ------------------------------ executor ------------------------------ *)
\* a log entry whose state_after repeats the state before the node ran
ExecutionStep_after_is_before(node_name, step, before, after, err) ==
    [node_name |-> node_name, step_number |-> step, state_before |-> before,
     state_after |-> before, error |-> err]

ExecutionStep(node_name, step, before, after, err) ==
    [node_name |-> node_name, step_number |-> step, state_before |-> before,
     state_after |-> after, error |-> err]

\* the step logged in the except block, without the error
ErrorStep_no_error(node_name, step, before, err) ==
    ExecutionStep(node_name, step, before, before, None)

\* the step logged in the except block: state_after=state_before
ErrorStep(node_name, step, before, err) ==
    ExecutionStep(node_name, step, before, before, err)

\* what the two snapshots of a log entry hold when they are taken: hb is
\* the heap at the time of state_before, ha at the time of state_after
Content(step, hb, ha) ==
    [state_before |-> Deep(step.state_before, hb),
     state_after |-> Deep(step.state_after, ha)]

LogRefs(log) ==
    UNION {Refs(log[i].state_before) \cup Refs(log[i].state_after) :
           i \in 1..Len(log)}

\* the loop condition with the bound off by one
LoopCond_le(cur, step, max) == cur # None /\ step <= max

\* the loop condition without the bound
LoopCond_unbounded(cur, step, max) == cur # None

\* while current_node_name is not None and step_number < self.max_steps
LoopCond(cur, step, max) == cur # None /\ step < max

(* ------------------------ streaming to observers ---------------------- *)
\* the WebSocket connection a client opens
Conns == {"w1"}
\* the run ids executors are constructed with
RunIds == {"r1"}
\* what asyncio finds in the thread that calls execute: a running event
\* loop, a current loop that is not running, a current loop that is closed,
\* or no current loop
Loops == {"running", "current", "closed", "none"}
\* what goes wrong inside _stream_log: the import of the manager fails, or
\* the set of connections changes while send_log iterates over it
StreamFaults == {None, "ImportError", "RuntimeError"}

\* exc is raised and the except clause catches it
Catches(clause, exc) ==
    /\ exc # None
    /\ clause \in {"Exception", "bare"} \/ clause = exc

Event(type, step) == [type |-> type, step_number |-> step]
\* history of a hand-off: the call that started or scheduled the
\* coroutine, and, when it ran at once, the sends that went through and the
\* sends that raised
Handed(ev, via, sent, lost) ==
    [type |-> ev.type, step_number |-> ev.step_number, via |-> via,
     sent |-> sent, lost |-> lost]

Clients(ac, rid) == IF rid \in DOMAIN ac THEN ac[rid] ELSE {}

\* ConnectionManager.connect
connect(ac, rid, ws) == Put(ac, rid, Clients(ac, rid) \cup {ws})

\* disconnect without the clean-up of the emptied set
disconnect_keep_empty(ac, rid, ws) ==
    IF rid \notin DOMAIN ac THEN ac
    ELSE Put(ac, rid, ac[rid] \ {ws})

\* ConnectionManager.disconnect: discard, and delete the set once empty
disconnect(ac, rid, ws) ==
    IF rid \notin DOMAIN ac THEN ac
    ELSE IF ac[rid] \ {ws} = {} THEN Del(ac, rid)
         ELSE Put(ac, rid, ac[rid] \ {ws})

\* send_log without the loop that removes the connections whose send raised
disconnect_all_skipped(ac, rid, wss) == ac

RECURSIVE disconnect_all(_, _, _)
disconnect_all(ac, rid, wss) ==
    IF wss = {} THEN ac
    ELSE LET ws == CHOOSE w \in wss : TRUE
         IN  disconnect_all(disconnect(ac, rid, ws), rid, wss \ {ws})

\* ConnectionManager.get_connection_count:
\* len(self.active_connections.get(run_id, set()))
get_connection_count(ac, rid) ==
    Cardinality(IF rid \in DOMAIN ac THEN ac[rid] ELSE {})

\* ConnectionManager.send_log run to its end: the sends to the connections
\* in fails raise and are caught one by one, those connections are removed
\* afterwards; sent counts the sends that went through, raised is what
\* leaves send_log
send_log(ac, rid, fault, fails) ==
    IF rid \notin DOMAIN ac
    THEN [active_connections |-> ac, sent |-> 0, lost |-> 0,
          raised |-> None]
    ELSE IF fault = "RuntimeError"
         THEN [active_connections |-> ac,
               sent |-> IF ac[rid] \ fails = {} THEN 0 ELSE 1,
               lost |-> IF ac[rid] \ fails = {} THEN 1 ELSE 0,
               raised |-> "RuntimeError"]
         ELSE [active_connections |->
                   disconnect_all(ac, rid, ac[rid] \cap fails),
               sent |-> Cardinality(ac[rid] \ fails),
               lost |-> Cardinality(ac[rid] \cap fails),
               raised |-> None]

\* what happens inside the try block of _stream_log
stream_log_body(ac, rid, fault, fails) ==
    IF fault = "ImportError"
    THEN [active_connections |-> ac, sent |-> 0, lost |-> 0,
          raised |-> "ImportError"]
    ELSE send_log(ac, rid, fault, fails)

\* _stream_log without its try block
stream_log_raises_no_try(rid, exc) ==
    IF rid = None THEN None ELSE exc

\* what leaves the coroutine _stream_log when exc is raised inside it
stream_log_raises(rid, exc) ==
    IF rid = None THEN None
    ELSE IF Catches("Exception", exc) THEN None ELSE exc

\* the streaming of step_complete: starts is how often a coroutine of the
\* event is started or scheduled, via the call that does it, loop what the
\* thread has for a loop afterwards, raises what leaves the block
\*   exc  what leaves the coroutine when it runs under run_until_complete
step_stream(rid, lp, exc) ==
    IF rid = None
    THEN [starts |-> 0, via |-> None, loop |-> lp, raises |-> None]
    ELSE IF lp = "running"
    THEN [starts |-> 1, via |-> "create_task", loop |-> lp, raises |-> None]
    ELSE IF lp = "current"
    THEN IF exc = None
         THEN [starts |-> 1, via |-> "run_until_complete", loop |-> lp,
               raises |-> None]
         ELSE IF Catches("RuntimeError", exc)
         THEN [starts |-> 2, via |-> "asyncio.run", loop |-> "none",
               raises |-> None]
         ELSE [starts |-> 1, via |-> "run_until_complete", loop |-> lp,
               raises |-> exc]
    ELSE [starts |-> 1, via |-> "asyncio.run", loop |-> "none",
          raises |-> None]

\* the streaming of error and of workflow_complete: asyncio.run in a try
\* with a bare except; asyncio.run refuses to start in a running loop
run_stream(rid, lp) ==
    IF rid = None \/ lp = "running"
    THEN [starts |-> 0, via |-> None, loop |-> lp, raises |-> None]
    ELSE [starts |-> 1, via |-> "asyncio.run", loop |-> "none",
          raises |-> None]

\* the observer side as one record
Obs == [handed |-> handed, tasks |-> tasks,
        active_connections |-> active_connections, received |-> received,
        loop |-> loop]

\* the observer side after the event ev went through the streaming d
emit(o, rid, ev, d, fault, fails) ==
    LET one == stream_log_body(o.active_connections, rid, fault, fails)
        two == stream_log_body(one.active_connections, rid, fault, fails)
        ran == IF d.via \in {None, "create_task"} THEN 0 ELSE d.starts
    IN  [handed |-> o.handed \o
                    (IF d.starts = 2
                     THEN <<Handed(ev, "run_until_complete", one.sent,
                                   one.lost),
                            Handed(ev, "asyncio.run", two.sent, two.lost)>>
                     ELSE IF d.starts = 1
                     THEN <<Handed(ev, d.via,
                                   IF ran = 0 THEN 0 ELSE one.sent,
                                   IF ran = 0 THEN 0 ELSE one.lost)>>
                     ELSE <<>>),
         tasks |-> IF d.via = "create_task" THEN Append(o.tasks, ev)
                   ELSE o.tasks,
         active_connections |->
             IF ran = 0 THEN o.active_connections
             ELSE IF ran = 1 THEN one.active_connections
             ELSE two.active_connections,
         received |-> o.received +
             (IF ran = 0 THEN 0 ELSE IF ran = 1 THEN one.sent
              ELSE one.sent + two.sent),
         loop |-> d.loop]

\* the streaming block of step_complete on the observer side o
stream_step(o, rid, fault, fails) ==
    LET body == stream_log_body(o.active_connections, rid, fault, fails)
    IN  step_stream(rid, o.loop, stream_log_raises(rid, body.raised))

SetObs(o) ==
    /\ handed' = o.handed
    /\ tasks' = o.tasks
    /\ active_connections' = o.active_connections
    /\ received' = o.received
    /\ loop' = o.loop

\* execute with no run_id: the loop of the executor from the node cur on,
\* up to the raise or the return
RECURSIVE RunPlain(_, _, _, _, _, _, _)
RunPlain(g, max, data, h, cur, step, log) ==
    IF LoopCond(cur, step, max)
    THEN LET before == to_dict(data)
             r == node_execute(g.nodes[cur], data, h)
         IN  IF r.raised # None
             THEN [pc |-> "failed", error |-> "Error executing node",
                   execution_log |->
                       Append(log, ErrorStep(cur, step + 1, before, r.raised)),
                   heap |-> r.heap, result |-> None]
             ELSE LET done == Append(log,
                                  ExecutionStep(cur, step + 1, before,
                                                to_dict(r.data), None))
                      next == get_next_node(g, cur, r.data)
                  IN  IF next = Raise
                      THEN [pc |-> "failed",
                            error |-> "Error executing node",
                            execution_log |->
                                Append(done, ErrorStep(cur, step + 1, before,
                                                       "NameError")),
                            heap |-> r.heap, result |-> None]
                      ELSE RunPlain(g, max, r.data, r.heap, next, step + 1,
                                    done)
    ELSE IF step >= max
    THEN [pc |-> "failed", error |-> "Workflow exceeded maximum steps",
          execution_log |-> log, heap |-> h, result |-> None]
    ELSE [pc |-> "completed", error |-> None, execution_log |-> log,
          heap |-> h,
          result |-> [final_state |-> to_dict(data), execution_log |-> log,
                      steps_executed |-> step]]

\* json.dumps of a dictionary or of a list of dictionaries gives a text,
\* json.loads of the text gives the value back
json_dumps(value) == <<"json", value>>
json_loads(text) == text[2]

\* WorkflowRun(status=RunStatus.RUNNING) and its ExecutionLog rows; the
\* status None stands for no run record
WorkflowRun(status, error_message, logs) ==
    [status |-> status, error_message |-> error_message,
     execution_logs |-> logs, current_state |-> json_dumps(EmptyMap),
     completed_at |-> None]

\* WorkflowRun(graph_id, status, current_state=json.dumps(initial_state))
NewRun(status, initial, h) ==
    [WorkflowRun(status, None, <<>>) EXCEPT
       !.current_state = json_dumps(Deep(initial, h))]

\* ExecutionLog(node_name, step_number, json.dumps(state_before),
\* json.dumps(state_after), error) of a trace entry
ExecutionLog(step, h) ==
    [node_name |-> step.node_name, step_number |-> step.step_number,
     state_before |-> Deep(step.state_before, h),
     state_after |-> Deep(step.state_after, h), error |-> step.error]

\* the run after execute returned res: COMPLETED, the final state, the
\* time of completion and one ExecutionLog row for each entry of the log
run_completed(run, res, h, now) ==
    [run EXCEPT !.status = "completed",
                !.current_state = json_dumps(Deep(res.final_state, h)),
                !.completed_at = now,
                !.execution_logs =
                    [i \in 1..Len(res.execution_log) |->
                        ExecutionLog(res.execution_log[i], h)]]

\* the except block of run_graph: FAILED and the message
run_failed(run, e) ==
    [run EXCEPT !.status = "failed", !.error_message = e]

\* the except block of execute_workflow_background: FAILED, the message
\* and the time of completion
background_failed(run, e) ==
    [run EXCEPT !.status = "failed", !.error_message = e,
                !.completed_at = "utcnow"]

\* execute(initial) of a new executor with no run_id
ExecutePlain(g, max, initial, h) ==
    IF validate(g) # <<>>
    THEN [pc |-> "failed", error |-> "Invalid graph", execution_log |-> <<>>,
          heap |-> h, result |-> None]
    ELSE RunPlain(g, max, from_dict(initial), Collect(h, Refs(initial)),
                  g.start_node, 0, <<>>)

\* no executor with a run_id, no client, no run record yet
InitObs ==
    /\ run_id = None
    /\ loop = "none"
    /\ active_connections = EmptyMap
    /\ tasks = <<>>
    /\ handed = <<>>
    /\ received = 0
    /\ workflow_run = WorkflowRun(None, None, <<>>)
    /\ plain = [pc |-> None]

\* the frame of send_log when no call is in progress
NoSend ==
    [pc |-> "idle", run_id |-> None, at_call |-> {}, size |-> 0,
     current |-> None, visited |-> {}, changed |-> FALSE, detached |-> FALSE,
     disconnected |-> {}, left |-> {}, joined |-> {}]

\* no send_log is in progress and no executors run side by side
InitMore ==
    /\ sending = NoSend
    /\ delivered = {}
    /\ runs = <<>>
    /\ db_graphs = <<>>

\* nothing has been called on the graph yet
InitBuild ==
    /\ findings = <<>>
    /\ call = [op |-> None, raised |-> None]
    /\ first_added = None
    /\ last_set = None

Init ==
    /\ graph \in Graphs
    /\ max_steps \in 0..MaxSteps
    /\ execution_log = <<>>
    /\ heap = EmptyMap
    /\ pc = "idle"
    /\ initial_state = EmptyMap
    /\ state = EmptyMap
    /\ current_node_name = None
    /\ step_number = 0
    /\ state_before = EmptyMap
    /\ error = None
    /\ result = None
    /\ invoked = <<>>
    /\ logged = <<>>
    /\ InitBuild
    /\ InitObs
    /\ InitMore

Returned == pc \in {"idle", "completed", "failed"}

\* graph.add_node(FunctionNode(name, ...)) between two calls of execute
AddNode(name) ==
    /\ UNCHANGED more_vars
    /\ Returned
    /\ graph' = add_tool(graph, name)
    /\ UNCHANGED <<build_vars, obs_vars>>
    /\ UNCHANGED <<max_steps, execution_log, heap, pc, initial_state, state,
                   current_node_name, step_number, state_before, error,
                   result, invoked, logged>>

\* executor.execute(initial_state) is called; the frame of the call before
\* it is gone, the executor keeps self.execution_log
Execute ==
    /\ UNCHANGED more_vars
    /\ Returned
    /\ UNCHANGED <<build_vars, obs_vars>>
    /\ LET kept == Collect(heap, LogRefs(execution_log))
       IN  /\ initial_state' \in InitialStates(Alloc(kept))
           /\ heap' = Put(kept, Alloc(kept), <<>>)
    /\ pc' = "validating"
    /\ state' = EmptyMap
    /\ current_node_name' = None
    /\ step_number' = 0
    /\ state_before' = EmptyMap
    /\ error' = None
    /\ result' = None
    /\ invoked' = <<>>
    /\ UNCHANGED <<graph, max_steps, execution_log, logged>>

\* errors = self.graph.validate() ... self.execution_log = []
Validate ==
    /\ UNCHANGED more_vars
    /\ pc = "validating"
    /\ UNCHANGED build_vars
    /\ UNCHANGED obs_vars
    /\ IF validate(graph) # <<>>
       THEN /\ pc' = "failed"
            /\ error' = "Invalid graph"
            /\ UNCHANGED <<state, current_node_name, step_number,
                           execution_log, logged, heap>>
       ELSE /\ state' = from_dict(initial_state)
            /\ current_node_name' = graph.start_node
            /\ step_number' = 0
            /\ execution_log' = <<>>
            /\ logged' = <<>>
            /\ heap' = Collect(heap, Refs(initial_state))
            /\ pc' = "running"
            /\ UNCHANGED error
    /\ UNCHANGED <<graph, max_steps, initial_state, state_before, result,
                   invoked>>

\* the state of before the node, handed to get_next_node
routing_state_before ==
    state_before

\* the state handed to get_next_node: the variable state, assigned by
\* state = node.execute(state) earlier in the same pass of the loop
routing_state ==
    state

\* execute that raises an exception class of its own for every message
exception_by_class ==
    [type |-> error, message |-> error]

\* the exception a failed execute raised: ValueError(f"Invalid graph: ..."),
\* ValueError(f"Error executing node ...") or
\* ValueError(f"Workflow exceeded maximum steps ...")
exception ==
    [type |-> "ValueError", message |-> error]

\* what can go wrong inside _stream_log now: the import fails only where
\* the module of the manager is missing, and then nobody is connected
FaultsNow ==
    {None}
    \cup (IF active_connections = EmptyMap THEN {"ImportError"} ELSE {})
    \cup (IF run_id \in DOMAIN active_connections
          THEN {"RuntimeError"} ELSE {})

\* one pass of the loop body up to the end of the try block's node part:
\* the node runs and its step is logged; when the node raises, the except
\* block logs the error step and streams the error event
ExecNode ==
    /\ UNCHANGED more_vars
    /\ pc = "running"
    /\ UNCHANGED <<build_vars, run_id, workflow_run, plain>>
    /\ LoopCond(current_node_name, step_number, max_steps)
    /\ step_number < StepCap
    /\ step_number' = step_number + 1
    /\ state_before' = to_dict(state)
    /\ invoked' = Append(invoked, current_node_name)
    /\ LET r == node_execute(graph.nodes[current_node_name], state, heap)
       IN  /\ heap' = r.heap
           /\ IF r.raised = None
              THEN LET step == ExecutionStep(current_node_name, step_number',
                                   state_before', to_dict(r.data), None)
                   IN  /\ state' = r.data
                       /\ execution_log' = Append(execution_log, step)
                       /\ logged' = Append(logged, Content(step, heap, heap'))
                       /\ pc' = "routing"
                       /\ UNCHANGED error
                       /\ SetObs(Obs)
              ELSE LET step == ErrorStep(current_node_name, step_number',
                                   state_before', r.raised)
                   IN  /\ execution_log' = Append(execution_log, step)
                       /\ logged' = Append(logged, Content(step, heap, heap))
                       /\ pc' = "failed"
                       /\ error' = "Error executing node"
                       /\ UNCHANGED state
                       /\ \E fault \in FaultsNow,
                             fails \in SUBSET Clients(active_connections,
                                                     run_id) :
                             SetObs(emit(Obs, run_id,
                                         Event("error", step_number'),
                                         run_stream(run_id, loop),
                                         fault, fails))
    /\ UNCHANGED <<graph, max_steps, initial_state, current_node_name, result>>

\* the rest of the try block: step_complete is streamed, then
\* current_node_name = self.graph.get_next_node(current_node_name, state);
\* what either raises goes to the except block, which logs the error step
\* and streams the error event
NextNode ==
    /\ UNCHANGED more_vars
    /\ pc = "routing"
    /\ UNCHANGED <<build_vars, run_id, workflow_run, plain>>
    /\ \E fault \in FaultsNow,
          fails \in SUBSET Clients(active_connections, run_id) :
        LET d == stream_step(Obs, run_id, fault, fails)
            o == emit(Obs, run_id, Event("step_complete", step_number), d,
                      fault, fails)
            next == IF d.raises # None THEN Raise
                    ELSE get_next_node(graph, current_node_name,
                                       routing_state)
        IN  /\ heap' = IF d.raises # None THEN heap
                       ELSE get_next_node_heap(graph, current_node_name,
                                               routing_state, heap)
            /\ IF next # Raise
               THEN /\ current_node_name' = next
                    /\ pc' = "running"
                    /\ UNCHANGED <<execution_log, logged, error>>
                    /\ SetObs(o)
               ELSE LET step == ErrorStep(current_node_name, step_number,
                                    state_before,
                                    IF d.raises # None THEN d.raises
                                    ELSE "NameError")
                    IN  /\ execution_log' = Append(execution_log, step)
                        /\ logged' = Append(logged,
                              [state_before |-> logged[Len(logged)].state_before,
                               state_after |-> logged[Len(logged)].state_before])
                        /\ pc' = "failed"
                        /\ error' = "Error executing node"
                        /\ UNCHANGED current_node_name
                        /\ SetObs(emit(o, run_id, Event("error", step_number),
                                       run_stream(run_id, o.loop), fault, fails))
    /\ graph' = get_next_node_graph(graph, current_node_name)
    /\ UNCHANGED <<max_steps, initial_state, state, step_number,
                   state_before, result, invoked>>

\* the loop is left: if step_number >= self.max_steps: raise, else
\* stream workflow_complete and return
LoopExit ==
    /\ UNCHANGED more_vars
    /\ pc = "running"
    /\ UNCHANGED <<build_vars, run_id, workflow_run, plain>>
    /\ ~LoopCond(current_node_name, step_number, max_steps)
    /\ IF step_number >= max_steps
       THEN /\ pc' = "failed"
            /\ error' = "Workflow exceeded maximum steps"
            /\ UNCHANGED result
            /\ SetObs(Obs)
       ELSE /\ pc' = "completed"
            /\ result' = [final_state |-> to_dict(state),
                          execution_log |-> execution_log,
                          steps_executed |-> step_number]
            /\ UNCHANGED error
            /\ \E fault \in FaultsNow,
                  fails \in SUBSET Clients(active_connections, run_id) :
                  SetObs(emit(Obs, run_id,
                              Event("workflow_complete", step_number),
                              run_stream(run_id, loop), fault, fails))
    /\ UNCHANGED <<graph, max_steps, execution_log, heap, initial_state,
                   state, current_node_name, step_number, state_before,
                   invoked, logged>>

Next ==
    \/ \E name \in NodeNames : AddNode(name)
    \/ Execute
    \/ Validate
    \/ ExecNode
    \/ NextNode
    \/ LoopExit

Spec == Init /\ [][Next]_vars

\* execute is a plain function: once called it runs to its end
FairSpec == Spec /\ WF_vars(Validate) /\ WF_vars(ExecNode)
                 /\ WF_vars(NextNode) /\ WF_vars(LoopExit)

(* ------------------------ building the graph -------------------------- *)
\* the names, functions and conditions the calls that build a graph use
BuildNames == {"count", "append", "drop"}
BuildFunctions == {"count", "fail"}
BuildConditions == {LT}

EdgeCount(g) ==
    LET RECURSIVE Sum(_)
        Sum(S) == IF S = {} THEN 0
                  ELSE LET f == CHOOSE x \in S : TRUE
                       IN  Len(g.edges[f]) + Sum(S \ {f})
    IN  Sum(DOMAIN g.edges)

\* a new WorkflowGraph; no executor runs in this specification
InitGraph ==
    /\ graph = EmptyGraph
    /\ max_steps = MaxSteps
    /\ execution_log = <<>>
    /\ heap = EmptyMap
    /\ pc = "idle"
    /\ initial_state = EmptyMap
    /\ state = EmptyMap
    /\ current_node_name = None
    /\ step_number = 0
    /\ state_before = EmptyMap
    /\ error = None
    /\ result = None
    /\ invoked = <<>>
    /\ logged = <<>>
    /\ InitBuild
    /\ InitObs
    /\ InitMore

\* graph.add_node(FunctionNode(name, function))
AddNodeCall(name, function) ==
    /\ UNCHANGED more_vars
    /\ graph' = add_node(graph, name, function)
    /\ call' = [op |-> "add_node", raised |-> add_node_raises(graph, name)]
    /\ first_added' = IF first_added = None
                         /\ add_node_raises(graph, name) = None
                      THEN name ELSE first_added
    /\ findings' = <<>>
    /\ UNCHANGED <<last_set, exec_vars, obs_vars>>

\* graph.add_edge(from_node, to_node, condition)
AddEdgeCall(from_node, to_node, condition) ==
    /\ UNCHANGED more_vars
    /\ \/ EdgeCount(graph) < MaxEdges
       \/ add_edge_raises(graph, from_node, to_node) # None
    /\ graph' = add_edge(graph, from_node, to_node, condition)
    /\ call' = [op |-> "add_edge",
                raised |-> add_edge_raises(graph, from_node, to_node)]
    /\ findings' = <<>>
    /\ UNCHANGED <<first_added, last_set, exec_vars, obs_vars>>

\* graph.set_start_node(node_name)
SetStartNodeCall(node_name) ==
    /\ UNCHANGED more_vars
    /\ graph' = set_start_node(graph, node_name)
    /\ call' = [op |-> "set_start_node",
                raised |-> set_start_node_raises(graph, node_name)]
    /\ last_set' = IF set_start_node_raises(graph, node_name) = None
                   THEN node_name ELSE last_set
    /\ findings' = <<>>
    /\ UNCHANGED <<first_added, exec_vars, obs_vars>>

\* graph.validate()
ValidateCall ==
    /\ UNCHANGED more_vars
    /\ findings' = validate(graph)
    /\ call' = [op |-> "validate", raised |-> None]
    /\ UNCHANGED <<graph, first_added, last_set, exec_vars, obs_vars>>

NextGraph ==
    \/ \E name \in BuildNames, function \in BuildFunctions :
          AddNodeCall(name, function)
    \/ \E from_node \in BuildNames, to_node \in BuildNames,
          condition \in BuildConditions :
          AddEdgeCall(from_node, to_node, condition)
    \/ \E node_name \in BuildNames : SetStartNodeCall(node_name)
    \/ ValidateCall

SpecGraph == InitGraph /\ [][NextGraph]_vars

(* ---------------------- runs with observers --------------------------- *)
\* the graphs of the runs with observers
ObsGraphs == {EmptyGraph, SingleGraph, LinearGraph, LoopGraph, FailGraph,
              DropGraph, CycleGraph}

InitRun ==
    /\ graph \in ObsGraphs
    /\ max_steps \in {1, RunSteps}
    /\ execution_log = <<>>
    /\ heap = EmptyMap
    /\ pc = "idle"
    /\ initial_state = EmptyMap
    /\ state = EmptyMap
    /\ current_node_name = None
    /\ step_number = 0
    /\ state_before = EmptyMap
    /\ error = None
    /\ result = None
    /\ invoked = <<>>
    /\ logged = <<>>
    /\ InitBuild
    /\ InitObs
    /\ InitMore

\* a caller constructs WorkflowExecutor(graph, max_steps, run_id=rid) in a
\* thread whose loop is lp and calls execute; api: the caller is run_graph,
\* which runs in a worker thread and creates the WorkflowRun first
ExecuteRun(rid, lp, api) ==
    /\ UNCHANGED more_vars
    /\ Returned
    /\ tasks = <<>>
    /\ workflow_run.status # "running"
    /\ api => (rid # None /\ lp = "none")
    /\ \E initial \in InitialStates(1) :
          /\ initial_state' = initial
          /\ plain' = ExecutePlain(graph, max_steps, initial,
                                   Put(EmptyMap, 1, <<>>))
    /\ heap' = Put(EmptyMap, 1, <<>>)
    /\ execution_log' = <<>>
    /\ logged' = <<>>
    /\ pc' = "validating"
    /\ state' = EmptyMap
    /\ current_node_name' = None
    /\ step_number' = 0
    /\ state_before' = EmptyMap
    /\ error' = None
    /\ result' = None
    /\ invoked' = <<>>
    /\ run_id' = rid
    /\ loop' = lp
    /\ handed' = <<>>
    /\ received' = 0
    /\ workflow_run' = IF api THEN NewRun("running", initial_state', heap')
                       ELSE WorkflowRun(None, None, <<>>)
    /\ UNCHANGED <<graph, max_steps, active_connections, tasks,
                   build_vars>>

\* run_graph after executor.execute: the run is stored as completed with
\* its logs, or, in the except block, as failed with the message
RunGraphDone ==
    /\ UNCHANGED more_vars
    /\ workflow_run.status = "running"
    /\ pc \in {"completed", "failed"}
    /\ workflow_run' =
          IF pc = "completed"
          THEN run_completed(workflow_run, result, heap, "started_at")
          ELSE run_failed(workflow_run, error)
    /\ UNCHANGED <<graph, exec_vars, build_vars, run_id, loop,
                   active_connections, tasks, handed, received, plain>>

\* websocket_endpoint: a client connects to the run; the event loop that
\* serves it is not the one a running execute keeps busy
Connect(ws) ==
    /\ UNCHANGED more_vars
    /\ loop # "running" \/ Returned
    /\ ws \notin Clients(active_connections, "r1")
    /\ active_connections' = connect(active_connections, "r1", ws)
    /\ UNCHANGED <<graph, exec_vars, build_vars, run_id, loop, tasks, handed,
                   received, workflow_run, plain>>

\* websocket_endpoint: the client went away (WebSocketDisconnect)
Disconnect(ws) ==
    /\ UNCHANGED more_vars
    /\ loop # "running" \/ Returned
    /\ ws \in Clients(active_connections, "r1")
    /\ active_connections' = disconnect(active_connections, "r1", ws)
    /\ UNCHANGED <<graph, exec_vars, build_vars, run_id, loop, tasks, handed,
                   received, workflow_run, plain>>

\* the running loop gets control back after execute returned and runs the
\* next task that create_task scheduled
RunTask ==
    /\ UNCHANGED more_vars
    /\ tasks # <<>>
    /\ Returned
    /\ \E fault \in FaultsNow,
          fails \in SUBSET Clients(active_connections, run_id) :
          LET body == stream_log_body(active_connections, run_id, fault,
                                      fails)
          IN  /\ active_connections' = body.active_connections
              /\ received' = received + body.sent
    /\ tasks' = Tail(tasks)
    /\ UNCHANGED <<graph, exec_vars, build_vars, run_id, loop, handed,
                   workflow_run, plain>>

NextRun ==
    \/ \E rid \in RunIds \cup {None}, lp \in Loops, api \in BOOLEAN :
          ExecuteRun(rid, lp, api)
    \/ Validate
    \/ ExecNode
    \/ NextNode
    \/ LoopExit
    \/ RunGraphDone
    \/ \E ws \in Conns : Connect(ws)
    \/ \E ws \in Conns : Disconnect(ws)
    \/ RunTask

SpecRun == InitRun /\ [][NextRun]_vars

(* --------------------- validate on any graph object ------------------- *)
\* the edge table after the appends of q, without the checks of add_edge:
\* nodes, edges and start_node are plain attributes of the graph object
RECURSIVE RawEdges(_)
RawEdges(q) ==
    IF q = <<>> THEN EmptyMap
    ELSE LET e == RawEdges(SubSeq(q, 1, Len(q) - 1))
             x == q[Len(q)]
         IN  Put(e, x[1], Append(IF x[1] \in DOMAIN e THEN e[x[1]] ELSE <<>>,
                                 [to |-> x[2], condition |-> None]))

EdgeSeqs ==
    UNION {[1..n -> BuildNames \X BuildNames] : n \in 0..MaxEdges}

AnyGraphs ==
    {[nodes |-> [n \in S |-> n], edges |-> RawEdges(q), start_node |-> st] :
        S \in SUBSET BuildNames, q \in EdgeSeqs, st \in BuildNames \cup {None}}

InitValidate ==
    /\ graph \in AnyGraphs
    /\ max_steps = MaxSteps
    /\ execution_log = <<>>
    /\ heap = EmptyMap
    /\ pc = "idle"
    /\ initial_state = EmptyMap
    /\ state = EmptyMap
    /\ current_node_name = None
    /\ step_number = 0
    /\ state_before = EmptyMap
    /\ error = None
    /\ result = None
    /\ invoked = <<>>
    /\ logged = <<>>
    /\ InitBuild
    /\ InitObs
    /\ InitMore

NextValidate == ValidateCall

SpecValidate == InitValidate /\ [][NextValidate]_vars

(* ----------------- runs on graphs with arbitrary guards --------------- *)
\* a loop whose conditions call a method of the list under "issues"
NoteGraph ==
    add_edge(add_edge(
        add_tool(add_tool(EmptyGraph, "count"), "append"),
        "count", "append", NoteLT), "append", "count", NoteLT)

\* the first condition is false and calls the method, the second is true
NoteBranchGraph ==
    add_edge(add_edge(add_edge(
        add_tool(add_tool(add_tool(EmptyGraph, "count"), "append"), "drop"),
        "count", "append", GE), "count", "append", NoteLT),
        "append", "drop", None)

GuardGraphs == {NoteGraph, NoteBranchGraph, LoopGraph}

\* an executor on a graph whose edges carry condition strings of a client
InitGuard ==
    /\ graph \in GuardGraphs
    /\ max_steps \in 0..MaxSteps
    /\ execution_log = <<>>
    /\ heap = EmptyMap
    /\ pc = "idle"
    /\ initial_state = EmptyMap
    /\ state = EmptyMap
    /\ current_node_name = None
    /\ step_number = 0
    /\ state_before = EmptyMap
    /\ error = None
    /\ result = None
    /\ invoked = <<>>
    /\ logged = <<>>
    /\ InitBuild
    /\ InitObs
    /\ InitMore

SpecGuard == InitGuard /\ [][Next]_vars

(* ------------------- WorkflowState and its dictionary ----------------- *)
\* how deep the values of a state nest
MaxDepth == 2

\* the JSON-shaped values of a state, each with its type: None, bool, int,
\* str, list and dict
Scalars ==
    {<<"null">>, <<"bool", FALSE>>, <<"bool", TRUE>>, <<"int", 0>>,
     <<"int", 1>>, <<"str", "x">>}

Containers(V) ==
    {<<"list", <<>>>>, <<"dict", EmptyMap>>}
    \cup {<<"list", <<v>>>> : v \in V}
    \cup {<<"dict", [k \in {"k"} |-> v]>> : v \in V}

RECURSIVE Values(_)
Values(depth) ==
    IF depth = 0 THEN Scalars
    ELSE Scalars \cup Containers(Values(depth - 1))

\* the dictionaries a WorkflowState is made from
Records ==
    UNION {[K -> Values(MaxDepth)] : K \in SUBSET {"a", "b"}}

\* WorkflowState.from_dict(initial_state) for a dictionary of a caller
InitState ==
    /\ initial_state \in Records
    /\ state = from_dict(initial_state)
    /\ graph = EmptyGraph
    /\ max_steps = MaxSteps
    /\ execution_log = <<>>
    /\ heap = EmptyMap
    /\ pc = "idle"
    /\ current_node_name = None
    /\ step_number = 0
    /\ state_before = EmptyMap
    /\ error = None
    /\ result = None
    /\ invoked = <<>>
    /\ logged = <<>>
    /\ InitBuild
    /\ InitObs
    /\ InitMore

\* WorkflowState.from_dict(state.to_dict())
StateRoundTrip ==
    /\ UNCHANGED more_vars
    /\ call.op = None
    /\ result' = from_dict(to_dict(state))
    /\ call' = [op |-> "from_dict(to_dict)", raised |-> None]
    /\ UNCHANGED <<graph, max_steps, execution_log, heap, pc, initial_state,
                   state, current_node_name, step_number, state_before,
                   error, invoked, logged, findings, first_added, last_set,
                   obs_vars>>

\* WorkflowState.from_dict(initial_state).to_dict()
RecordRoundTrip ==
    /\ UNCHANGED more_vars
    /\ call.op = None
    /\ result' = to_dict(from_dict(initial_state))
    /\ call' = [op |-> "to_dict(from_dict)", raised |-> None]
    /\ UNCHANGED <<graph, max_steps, execution_log, heap, pc, initial_state,
                   state, current_node_name, step_number, state_before,
                   error, invoked, logged, findings, first_added, last_set,
                   obs_vars>>

NextState ==
    \/ StateRoundTrip
    \/ RecordRoundTrip

SpecState == InitState /\ [][NextState]_vars

(* ------------------- the connection manager alone --------------------- *)
\* the websockets of clients and the run ids they connect for
SendConns == {"w1", "w2", "w3"}
SendRunIds == {"r1", "r2"}

Connected(ac) == UNION {ac[r] : r \in DOMAIN ac}

\* a send_log call is suspended in the await of its loop
Iterating == sending.pc = "iterating"

\* manager = ConnectionManager()
InitManager ==
    /\ graph = EmptyGraph
    /\ max_steps = MaxSteps
    /\ execution_log = <<>>
    /\ heap = EmptyMap
    /\ pc = "idle"
    /\ initial_state = EmptyMap
    /\ state = EmptyMap
    /\ current_node_name = None
    /\ step_number = 0
    /\ state_before = EmptyMap
    /\ error = None
    /\ result = None
    /\ invoked = <<>>
    /\ logged = <<>>
    /\ InitBuild
    /\ InitObs
    /\ InitMore

\* websocket_endpoint: await manager.connect(run_id, websocket); a
\* websocket is a new object for every connection
SendConnect(rid, ws) ==
    /\ ws \notin Connected(active_connections)
    /\ Iterating => ws \notin sending.at_call \cup sending.joined
    /\ active_connections' = connect(active_connections, rid, ws)
    /\ sending' = IF Iterating /\ rid = sending.run_id
                  THEN [sending EXCEPT
                          !.joined = @ \cup {ws},
                          !.changed = @ \/ ~sending.detached]
                  ELSE sending
    /\ UNCHANGED <<graph, exec_vars, build_vars, run_id, loop, tasks, handed,
                   received, workflow_run, plain, delivered, runs,
                   db_graphs>>

\* websocket_endpoint: except WebSocketDisconnect:
\* manager.disconnect(run_id, websocket)
SendDisconnect(rid, ws) ==
    /\ ws \in Clients(active_connections, rid)
    /\ active_connections' = disconnect(active_connections, rid, ws)
    /\ sending' = IF Iterating /\ rid = sending.run_id
                  THEN [sending EXCEPT
                          !.left = @ \cup {ws},
                          !.changed = @ \/ ~sending.detached,
                          !.detached = @ \/ rid \notin
                                             DOMAIN active_connections']
                  ELSE sending
    /\ UNCHANGED <<graph, exec_vars, build_vars, run_id, loop, tasks, handed,
                   received, workflow_run, plain, delivered, runs,
                   db_graphs>>

\* the connection the loop of send_log turns to, and the frame with it
Visit(frame, connection) ==
    [frame EXCEPT !.current = connection, !.visited = @ \cup {connection}]

\* await manager.send_log(rid, message) is called: without a set for rid
\* it returns; else the for loop takes the first connection from the
\* iterator of the set and the call is suspended in await send_json
SendLog(rid) ==
    /\ ~Iterating
    /\ delivered' = {}
    /\ IF rid \in DOMAIN active_connections
       THEN \E connection \in active_connections[rid] :
               sending' = Visit([NoSend EXCEPT
                                   !.pc = "iterating", !.run_id = rid,
                                   !.at_call = active_connections[rid],
                                   !.size = Cardinality(
                                               active_connections[rid])],
                                connection)
       ELSE sending' = [NoSend EXCEPT !.pc = "returned", !.run_id = rid]
    /\ UNCHANGED <<graph, exec_vars, build_vars, obs_vars, runs, db_graphs>>

\* the set object the iterator of the loop reads: the set of the run, or
\* the emptied set that disconnect took out of the dictionary
IteratedSet ==
    IF sending.detached THEN {}
    ELSE Clients(active_connections, sending.run_id)

\* await connection.send_json(message) returns or raises, and the for
\* loop asks its iterator for the next connection: the iterator raises
\* RuntimeError when the size of the set is not the size it had at the
\* start; else it yields a connection not yet visited and the call is
\* suspended again, or it is exhausted and the connections whose send
\* raised are disconnected
SendNext ==
    /\ Iterating
    /\ UNCHANGED <<graph, exec_vars, build_vars, run_id, loop, tasks, handed,
                   received, workflow_run, plain, runs, db_graphs>>
    /\ \E sent \in BOOLEAN :
          LET frame == IF sent THEN sending
                       ELSE [sending EXCEPT
                               !.disconnected = @ \cup {sending.current}]
          IN  /\ delivered' = IF sent THEN delivered \cup {sending.current}
                              ELSE delivered
              /\ IF Cardinality(IteratedSet) # sending.size
                 THEN /\ sending' = [frame EXCEPT !.pc = "raised"]
                      /\ UNCHANGED active_connections
                 ELSE \/ /\ IteratedSet \ sending.visited = {}
                            \/ sending.changed
                         /\ sending' = [frame EXCEPT !.pc = "returned"]
                         /\ active_connections'
                               = disconnect_all(active_connections,
                                                sending.run_id,
                                                frame.disconnected)
                      \/ /\ UNCHANGED active_connections
                         /\ \E connection \in
                                  IteratedSet \ sending.visited :
                               sending' = Visit(frame, connection)

NextSend ==
    \/ \E rid \in SendRunIds, ws \in SendConns : SendConnect(rid, ws)
    \/ \E rid \in SendRunIds, ws \in SendConns : SendDisconnect(rid, ws)
    \/ \E rid \in SendRunIds : SendLog(rid)
    \/ SendNext

SpecSend == InitManager /\ [][NextSend]_vars

(* ----------------- runs through the asynchronous endpoint ------------- *)
\* the background task that sets the run to running only after execute
task_started_late(run) ==
    run

\* execute_workflow_background: workflow_run.status = RunStatus.RUNNING;
\* db.commit(), before the graph is built and execute is called
task_started(run) ==
    [run EXCEPT !.status = "running"]

\* the server with a stored graph, no run yet
InitAsync ==
    /\ graph \in ObsGraphs
    /\ max_steps \in {1, RunSteps}
    /\ execution_log = <<>>
    /\ heap = EmptyMap
    /\ pc = "idle"
    /\ initial_state = EmptyMap
    /\ state = EmptyMap
    /\ current_node_name = None
    /\ step_number = 0
    /\ state_before = EmptyMap
    /\ error = None
    /\ result = None
    /\ invoked = <<>>
    /\ logged = <<>>
    /\ InitBuild
    /\ InitObs
    /\ InitMore

\* POST /graph/run/async: the WorkflowRun is stored with status PENDING,
\* execute_workflow_background is added to the background tasks with the
\* initial state of the request, and the response says "pending"
RunGraphAsync ==
    /\ workflow_run.status = None
    /\ initial_state' \in InitialStates(1)
    /\ heap' = Put(EmptyMap, 1, <<>>)
    /\ workflow_run' = NewRun("pending", initial_state', heap')
    /\ call' = [op |-> "run_graph_async", raised |-> None]
    /\ UNCHANGED <<graph, max_steps, execution_log, pc, state,
                   current_node_name, step_number, state_before, error,
                   result, invoked, logged, findings, first_added, last_set,
                   run_id, loop, active_connections, tasks, handed, received,
                   plain, more_vars>>

\* the background task starts in a thread of the pool: the run is set to
\* RUNNING and committed, the executor is made with the id of the run and
\* execute is called
ExecuteBackground ==
    /\ workflow_run.status = "pending"
    /\ workflow_run' = task_started(workflow_run)
    /\ pc' = "validating"
    /\ run_id' = "r1"
    /\ loop' = "none"
    /\ UNCHANGED <<graph, max_steps, execution_log, heap, initial_state,
                   state, current_node_name, step_number, state_before,
                   error, result, invoked, logged, build_vars,
                   active_connections, tasks, handed, received, plain,
                   more_vars>>

\* execute_workflow_background after executor.execute: COMPLETED with the
\* logs, or, in the except block, FAILED with the message; db.commit()
BackgroundDone ==
    /\ workflow_run.status \in {"pending", "running"}
    /\ run_id # None
    /\ pc \in {"completed", "failed"}
    /\ workflow_run' =
          IF pc = "completed"
          THEN run_completed(workflow_run, result, heap, "utcnow")
          ELSE background_failed(workflow_run, error)
    /\ UNCHANGED <<graph, exec_vars, build_vars, run_id, loop,
                   active_connections, tasks, handed, received, plain,
                   more_vars>>

NextAsync ==
    \/ RunGraphAsync
    \/ ExecuteBackground
    \/ Validate
    \/ ExecNode
    \/ NextNode
    \/ LoopExit
    \/ BackgroundDone
    \/ \E ws \in Conns : Connect(ws)
    \/ \E ws \in Conns : Disconnect(ws)

SpecAsync == InitAsync /\ [][NextAsync]_vars

\* the background task is a plain function call: it runs to its end
FairAsync ==
    /\ SpecAsync
    /\ WF_vars(ExecuteBackground)
    /\ WF_vars(Validate)
    /\ WF_vars(ExecNode)
    /\ WF_vars(NextNode)
    /\ WF_vars(LoopExit)
    /\ WF_vars(BackgroundDone)

(* -------------------- two executors side by side ---------------------- *)
\* the two runs, each with an executor of its own
Runs == {1, 2}
Other(p) == 3 - p

\* the graphs of the runs
PairGraphs == {EmptyGraph, LoopGraph, FailGraph, DropGraph}

\* the executor whose attribute holds the trace, were execution_log an
\* attribute of the class
log_owner_class(p) ==
    1

\* the executor whose attribute holds the trace of run p:
\* self.execution_log is set in __init__ and again in execute
log_owner(p) ==
    p

\* executor.get_execution_log() of run p in rs
get_execution_log(rs, p) == rs[log_owner(p)].execution_log

\* rs with run p replaced by r and self.execution_log of p set to log
SetRun(rs, p, r, log) ==
    [[rs EXCEPT ![p] = r] EXCEPT ![log_owner(p)].execution_log = log]

\* the lists under "issues" of the two callers
PairHeap == [a \in Runs |-> <<>>]

\* WorkflowExecutor(g, max_steps=max), to be called with initial; plain is
\* what execute(initial) gives when no other run exists, interleaved
\* records that a step of this run was taken in the middle of the other
Executor(g, max, initial) ==
    [graph |-> g, max_steps |-> max, initial_state |-> initial,
     pc |-> "idle", state |-> EmptyMap, current_node_name |-> None,
     step_number |-> 0, state_before |-> EmptyMap, execution_log |-> <<>>,
     error |-> None, result |-> None, interleaved |-> FALSE,
     plain |-> ExecutePlain(g, max, initial, PairHeap)]

InitPair ==
    /\ graph = EmptyGraph
    /\ max_steps = MaxSteps
    /\ execution_log = <<>>
    /\ heap = PairHeap
    /\ pc = "idle"
    /\ initial_state = EmptyMap
    /\ state = EmptyMap
    /\ current_node_name = None
    /\ step_number = 0
    /\ state_before = EmptyMap
    /\ error = None
    /\ result = None
    /\ invoked = <<>>
    /\ logged = <<>>
    /\ InitBuild
    /\ InitObs
    /\ sending = NoSend
    /\ delivered = {}
    /\ db_graphs = <<>>
    /\ \E g1 \in PairGraphs, g2 \in PairGraphs,
          i1 \in InitialStates(1), i2 \in InitialStates(2) :
          runs = [p \in Runs |->
                    IF p = 1 THEN Executor(g1, RunSteps, i1)
                    ELSE Executor(g2, RunSteps, i2)]

\* the other run is between its first step and its end
Midway(p) == runs[Other(p)].pc \in {"running", "routing"}

\* what the actions of the two runs leave alone
PairFrame ==
    UNCHANGED <<graph, max_steps, execution_log, pc, initial_state, state,
                current_node_name, step_number, state_before, error, result,
                invoked, logged, build_vars, obs_vars, sending, delivered,
                db_graphs>>

\* executor p: execute(initial_state) up to the head of the while loop
ExecutePair(p) ==
    LET r == runs[p]
    IN  /\ r.pc = "idle"
        /\ PairFrame
        /\ UNCHANGED heap
        /\ IF validate(r.graph) # <<>>
           THEN runs' = [runs EXCEPT ![p].pc = "failed",
                                     ![p].error = "Invalid graph"]
           ELSE runs' = SetRun(runs, p,
                               [r EXCEPT !.state = from_dict(r.initial_state),
                                         !.current_node_name
                                            = r.graph.start_node,
                                         !.step_number = 0,
                                         !.pc = "running",
                                         !.interleaved = Midway(p)],
                               <<>>)

\* executor p: the node of one pass of the loop runs and is logged
ExecNodePair(p) ==
    LET r == runs[p]
        k == r.step_number + 1
        before == to_dict(r.state)
        res == node_execute(r.graph.nodes[r.current_node_name], r.state,
                            heap)
        seen == r.interleaved \/ Midway(p)
    IN  /\ r.pc = "running"
        /\ LoopCond(r.current_node_name, r.step_number, r.max_steps)
        /\ PairFrame
        /\ heap' = res.heap
        /\ IF res.raised = None
           THEN runs' = SetRun(runs, p,
                           [r EXCEPT !.step_number = k,
                                     !.state_before = before,
                                     !.state = res.data,
                                     !.pc = "routing",
                                     !.interleaved = seen],
                           Append(get_execution_log(runs, p),
                                  ExecutionStep(r.current_node_name, k,
                                                before, to_dict(res.data),
                                                None)))
           ELSE runs' = SetRun(runs, p,
                           [r EXCEPT !.step_number = k,
                                     !.state_before = before,
                                     !.pc = "failed",
                                     !.error = "Error executing node",
                                     !.interleaved = seen],
                           Append(get_execution_log(runs, p),
                                  ErrorStep(r.current_node_name, k, before,
                                            res.raised)))

\* executor p: get_next_node at the end of the pass
NextNodePair(p) ==
    LET r == runs[p]
        next == get_next_node(r.graph, r.current_node_name, r.state)
        seen == r.interleaved \/ Midway(p)
    IN  /\ r.pc = "routing"
        /\ PairFrame
        /\ heap' = get_next_node_heap(r.graph, r.current_node_name, r.state,
                                      heap)
        /\ IF next # Raise
           THEN runs' = [runs EXCEPT ![p].current_node_name = next,
                                     ![p].pc = "running",
                                     ![p].interleaved = seen]
           ELSE runs' = SetRun(runs, p,
                           [r EXCEPT !.pc = "failed",
                                     !.error = "Error executing node",
                                     !.interleaved = seen],
                           Append(get_execution_log(runs, p),
                                  ErrorStep(r.current_node_name,
                                            r.step_number, r.state_before,
                                            "NameError")))

\* executor p: the loop is left, execute raises for the bound or returns
LoopExitPair(p) ==
    LET r == runs[p]
    IN  /\ r.pc = "running"
        /\ ~LoopCond(r.current_node_name, r.step_number, r.max_steps)
        /\ PairFrame
        /\ UNCHANGED heap
        /\ IF r.step_number >= r.max_steps
           THEN runs' = [runs EXCEPT
                           ![p].pc = "failed",
                           ![p].error = "Workflow exceeded maximum steps"]
           ELSE runs' = [runs EXCEPT
                           ![p].pc = "completed",
                           ![p].result =
                              [final_state |-> to_dict(r.state),
                               execution_log |-> get_execution_log(runs, p),
                               steps_executed |-> r.step_number]]

NextPair ==
    \/ \E p \in Runs : ExecutePair(p)
    \/ \E p \in Runs : ExecNodePair(p)
    \/ \E p \in Runs : NextNodePair(p)
    \/ \E p \in Runs : LoopExitPair(p)

SpecPair == InitPair /\ [][NextPair]_vars

(* ---------------------- creating a stored graph ----------------------- *)
\* most nodes of a graph definition
MaxDefNodes == 2

\* ToolRegistry.list_tools(): the names of the registered functions
list_tools == {"count", "fail"}

\* the node names of the requests
DefNames == {"count", "append"}

\* the request bodies of POST /graph/create: a list of NodeDefinition,
\* with registered functions and one that is not, and a list of
\* EdgeDefinition, with ends among the node names and one that is not
GraphCreate ==
    LET SeqsUpTo(S, n) == UNION {[1..k -> S] : k \in 0..n}
        NodeDefinition == [name : DefNames,
                           function : list_tools \cup {"missing"}]
        EdgeDefinition == [from_node : DefNames \cup {"drop"},
                           to_node : DefNames \cup {"drop"},
                           condition : {None, LT}]
    IN  [nodes : SeqsUpTo(NodeDefinition, MaxDefNodes),
         edges : SeqsUpTo(EdgeDefinition, MaxEdges)]

\* the two checks of create_graph: the detail of the HTTPException 400
\* of the first that fails, or None
create_graph_raises(graph_data) ==
    LET node_names == {graph_data.nodes[i].name :
                          i \in 1..Len(graph_data.nodes)}
        unknown == {i \in 1..Len(graph_data.nodes) :
                       graph_data.nodes[i].function \notin list_tools}
        bad == {i \in 1..Len(graph_data.edges) :
                   \/ graph_data.edges[i].from_node \notin node_names
                   \/ graph_data.edges[i].to_node \notin node_names}
        first == CHOOSE i \in bad : \A j \in bad : i <= j
    IN  IF unknown # {} THEN "Function not found in tool registry"
        ELSE IF bad = {} THEN None
        ELSE IF graph_data.edges[first].from_node \notin node_names
             THEN "Edge references non-existent source node"
             ELSE "Edge references non-existent destination node"

\* the two loops of build_workflow_graph from the i-th node and the j-th
\* edge on: the graph that is built, and what add_node, ToolRegistry.get
\* or add_edge raised
RECURSIVE build_from(_, _, _, _, _)
build_from(g, nodes_data, i, edges_data, j) ==
    IF i <= Len(nodes_data)
    THEN LET node_data == nodes_data[i]
         IN  IF node_data.function \notin list_tools
             THEN [graph |-> g, raised |-> "not found in registry"]
             ELSE IF add_node_raises(g, node_data.name) # None
             THEN [graph |-> g,
                   raised |-> add_node_raises(g, node_data.name)]
             ELSE build_from(add_node(g, node_data.name, node_data.function),
                             nodes_data, i + 1, edges_data, j)
    ELSE IF j <= Len(edges_data)
    THEN LET edge_data == edges_data[j]
             raised == add_edge_raises(g, edge_data.from_node,
                                       edge_data.to_node)
         IN  IF raised # None THEN [graph |-> g, raised |-> raised]
             ELSE build_from(add_edge(g, edge_data.from_node,
                                      edge_data.to_node,
                                      edge_data.condition),
                             nodes_data, i, edges_data, j + 1)
    ELSE [graph |-> g, raised |-> None]

\* build_workflow_graph(graph): json.loads of the two columns, then the
\* nodes and the edges are added to a new WorkflowGraph
build_workflow_graph(row) ==
    build_from(EmptyGraph, json_loads(row.nodes), 1,
               json_loads(row.edges), 1)

\* POST /graph/create: the request is refused with 400 or the graph is
\* stored: Graph(nodes=json.dumps(...), edges=json.dumps(...))
CreateGraph(graph_data) ==
    /\ db_graphs = <<>>
    /\ call' = [op |-> "create_graph",
                raised |-> create_graph_raises(graph_data)]
    /\ db_graphs' = IF create_graph_raises(graph_data) = None
                    THEN <<[nodes |-> json_dumps(graph_data.nodes),
                            edges |-> json_dumps(graph_data.edges)]>>
                    ELSE db_graphs
    /\ UNCHANGED <<graph, exec_vars, findings, first_added, last_set,
                   obs_vars, sending, delivered, runs>>

\* POST /graph/run for the stored graph with the initial state {}: the
\* run is stored as running, the graph is built and execute is called
\* with it; when build_workflow_graph raises, the except block stores the
\* run as failed
RunCreated ==
    /\ db_graphs # <<>>
    /\ pc = "idle"
    /\ workflow_run.status = None
    /\ LET built == build_workflow_graph(db_graphs[1])
       IN  /\ call' = [op |-> "run_graph", raised |-> built.raised]
           /\ IF built.raised = None
              THEN /\ graph' = built.graph
                   /\ pc' = "validating"
                   /\ run_id' = "r1"
                   /\ workflow_run' = NewRun("running", EmptyMap, heap)
              ELSE /\ workflow_run' =
                         run_failed(NewRun("running", EmptyMap, heap),
                                    built.raised)
                   /\ UNCHANGED <<graph, pc, run_id>>
    /\ UNCHANGED <<max_steps, execution_log, heap, initial_state, state,
                   current_node_name, step_number, state_before, error,
                   result, invoked, logged, findings, first_added, last_set,
                   loop, active_connections, tasks, handed, received, plain,
                   more_vars>>

\* a run that passed the validation goes on as the runs of Spec do
NextCreate ==
    \/ \E graph_data \in GraphCreate : CreateGraph(graph_data)
    \/ RunCreated
    \/ Validate
    \/ RunGraphDone

\* the server starts with no graph stored and no WorkflowGraph built
SpecCreate == InitGraph /\ [][NextCreate]_vars

TypeOK ==
    /\ pc \in {"idle", "validating", "running", "routing", "completed",
               "failed"}
    /\ step_number \in 0..StepCap
    /\ current_node_name \in NodeNames \cup {None}
    /\ Len(logged) = Len(execution_log)
    /\ run_id \in RunIds \cup {None}
    /\ loop \in Loops
    /\ DOMAIN active_connections \subseteq RunIds
    /\ \A r \in DOMAIN active_connections :
          active_connections[r] # {} /\ active_connections[r] \subseteq Conns
    /\ Len(tasks) <= Len(handed)
    /\ received \in Nat

(* ------------------------------ properties ---------------------------- *)
Last(s) == s[Len(s)]
EdgesOf(g, n) == IF n \in DOMAIN g.edges THEN g.edges[n] ELSE <<>>
Qualifies(e, d) == e.condition = None \/ eval(e.condition, d) = "true"
Faults(e, d) == e.condition # None /\ eval(e.condition, d) = Raise
\* a run of execute got past validation and has ended
RunEnded == pc \in {"completed", "failed"} /\ error # "Invalid graph"
StepBoundError == pc = "failed" /\ error = "Workflow exceeded maximum steps"
NodeError == pc = "failed" /\ error = "Error executing node"

\* r is the target of the first edge of n that qualifies on d, None if no
\* edge of n qualifies
FirstMatch(g, n, d, r) ==
    LET es == EdgesOf(g, n)
    IN  \/ \E i \in 1..Len(es) :
              /\ Qualifies(es[i], d)
              /\ \A j \in 1..(i - 1) : ~Qualifies(es[j], d)
              /\ r = es[i].to
        \/ /\ \A i \in 1..Len(es) : ~Qualifies(es[i], d)
           /\ r = None

\* C1: get_next_node returns the target of the first edge, in the order the
\* edges were added, whose condition is absent or true on the state, never
\* a later edge that qualifies too, and None exactly when no edge qualifies
\* (every node of the graph on the state of the run, and the node the
\* executor went to after its last step).
C1_NextNodeFirstMatch ==
    /\ \A n \in DOMAIN graph.nodes :
          LET r == get_next_node(graph, n, state)
          IN  r # Raise => FirstMatch(graph, n, state, r)
    /\ (pc = "running" /\ invoked # <<>>)
          => FirstMatch(graph, Last(invoked), state, current_node_name)

\* C1 witness: the executor followed the first of two qualifying edges that
\* lead to different nodes
C1_Witness ==
    /\ pc = "running" /\ invoked # <<>>
    /\ LET es == EdgesOf(graph, Last(invoked))
       IN  \E i \in 1..Len(es) : \E j \in (i + 1)..Len(es) :
              /\ Qualifies(es[i], state) /\ Qualifies(es[j], state)
              /\ es[i].condition # None
              /\ es[i].to # es[j].to
              /\ current_node_name = es[i].to

\* C2: when validate() returns a finding execute fails with the validation
\* error, no node has run, and the trace of the executor is empty, whatever
\* the executor did in earlier calls.
C2_ValidationFailureEmptyTrace ==
    (pc = "failed" /\ error = "Invalid graph")
        => (invoked = <<>> /\ execution_log = <<>>)

\* C3: a run executes at most max_steps nodes; a run that still has a
\* current node after max_steps steps never completes, and the run that
\* fails with the step bound error leaves exactly max_steps trace entries.
C3_StepBound ==
    /\ Len(invoked) <= max_steps
    /\ (pc # "idle" /\ pc # "validating" /\ error # "Invalid graph")
          => Len(execution_log) <= max_steps + 1
    /\ (RunEnded /\ ~NodeError /\ current_node_name # None)
          => StepBoundError
    /\ StepBoundError
          => /\ Len(execution_log) = max_steps
             /\ Len(invoked) = max_steps
             /\ result = None

\* C3 witness: a run stopped by the bound after two or more steps with a
\* node still to run
C3_Witness ==
    /\ StepBoundError
    /\ max_steps >= 2
    /\ current_node_name # None
    /\ Len(execution_log) = max_steps

\* C4: the step bound error is raised only when the loop stops at
\* step_number = max_steps with a current node still present; a run whose
\* max_steps-th node has no next node completes.
C4_StepBoundOnlyWithCurrentNode ==
    StepBoundError => (step_number = max_steps /\ current_node_name # None)

\* the node the run stopped at raises when it is executed
NodeRaised ==
    /\ NodeError
    /\ Len(invoked) = step_number
    /\ Function(graph.nodes[current_node_name], state, heap).raised # None

\* C5: when a node raises at step k the trace gets one entry for step k,
\* with state_after equal to state_before and an error; the run fails
\* without a result, and the failing node is the last node invoked, once.
C5_NodeFailureRecorded ==
    NodeRaised =>
        LET k == step_number
            last == Last(execution_log)
        IN  /\ execution_log # <<>>
            /\ last.step_number = k
            /\ last.node_name = current_node_name
            /\ Cardinality({i \in 1..Len(execution_log) :
                              execution_log[i].step_number = k}) = 1
            /\ last.state_after = last.state_before
            /\ Deep(last.state_after, heap) = Deep(last.state_before, heap)
            /\ last.error # None
            /\ \A i \in 1..(Len(execution_log) - 1) :
                  execution_log[i].error = None
            /\ result = None
            /\ invoked[k] = current_node_name
            /\ Len(execution_log) = k

\* C5 witness: the second node of a run raised after it changed the list
\* of the state in place
C5_Witness ==
    /\ NodeRaised
    /\ step_number = 2
    /\ Last(execution_log).error = "RuntimeError"
    /\ Deep(Last(execution_log).state_before, heap)["issues"] = <<1>>

\* the first edge of n whose condition is not false has a condition that
\* raises on d
GuardFaults(g, n, d) ==
    LET es == EdgesOf(g, n)
    IN  \E i \in 1..Len(es) :
           /\ Faults(es[i], d)
           /\ \A j \in 1..(i - 1) :
                 es[j].condition # None /\ eval(es[j].condition, d) = "false"

\* C6: when a condition raises while the next node is looked up, the run
\* fails with the error of a node failure: the edge is not skipped, no
\* further node becomes current, and the run does not return a result.
C6_GuardFailureFailsRun ==
    [][(pc = "routing" /\ GuardFaults(graph, current_node_name, state))
          => /\ pc' = "failed"
             /\ error' = "Error executing node"
             /\ result' = None
             /\ current_node_name' = current_node_name
             /\ invoked' = invoked
             /\ Last(execution_log').error # None]_vars

\* C6 witness: a run failed on a raising condition of an edge that is
\* followed by an edge without condition
C6_Witness ==
    /\ NodeError
    /\ result = None
    /\ current_node_name # None
    /\ GuardFaults(graph, current_node_name, state)
    /\ \E i \in 1..Len(EdgesOf(graph, current_node_name)) :
          EdgesOf(graph, current_node_name)[i].condition = None

\* C7: in every run the trace has one entry per node execution attempted,
\* and the i-th entry has step_number i.
C7_TraceStepNumbers ==
    (pc \in {"running", "routing"} \/ RunEnded)
        => /\ Len(execution_log) = Len(invoked)
           /\ \A i \in 1..Len(execution_log) :
                 execution_log[i].step_number = i

\* C8: the state_before and state_after of a trace entry keep the content
\* they had when the entry was logged, whatever later nodes do to the
\* nested list of the state.
C8_SnapshotsNotAliased ==
    \A i \in 1..Len(execution_log) :
        Content(execution_log[i], heap, heap) = logged[i]

\* C9: a call of execute goes from validating to running or failed, from
\* running only to completed or failed, and every call that has started
\* ends completed or failed, cyclic graphs included.
C9_ExecuteTerminates ==
    /\ (pc = "validating") ~> (pc \in {"completed", "failed"})
    /\ (pc \in {"running", "routing"}) ~> (pc \in {"completed", "failed"})
    /\ [][/\ pc = "validating" => pc' \in {"running", "failed"}
          /\ pc \in {"running", "routing"}
                => pc' \in {"running", "routing", "completed", "failed"}
          /\ pc' = "running" => pc \in {"validating", "routing"}]_vars

\* C9 witness: the run on the cycle without condition was ended by the
\* step bound
C9_Witness ==
    /\ graph = CycleGraph
    /\ StepBoundError
    /\ step_number = max_steps
    /\ max_steps = MaxSteps

\* passes through the loop body of LoopGraph: its last node counts them
Passes == Cardinality({i \in 1..Len(invoked) : invoked[i] = "count"})
AtLeastOne(n) == IF n < 1 THEN 1 ELSE n
\* a run of LoopGraph with the bound N = max_iterations in its state is over
LoopRunEnded ==
    /\ graph = LoopGraph
    /\ RunEnded
    /\ "max_iterations" \in DOMAIN initial_state

\* C10 as stated: with the back edge guarded by iterations < N the run
\* completes after exactly N passes through the loop body, for every
\* max_steps larger than the steps of N passes.
C10_LoopPassesOriginal ==
    (LoopRunEnded /\ max_steps > 2 * initial_state["max_iterations"])
        => (pc = "completed" /\ Passes = initial_state["max_iterations"])

\* C10 amended: the loop body runs before the guard is first evaluated, so
\* the run completes after exactly max(N, 1) passes, for every max_steps
\* larger than the steps of these passes.
C10_LoopPasses ==
    LET n == AtLeastOne(initial_state["max_iterations"])
    IN  (LoopRunEnded /\ max_steps > 2 * n)
           => /\ pc = "completed"
              /\ Passes = n
              /\ result.steps_executed = 2 * n
              /\ state["iterations"] = n

\* C10 witness: the run with N = 2 completed after two passes
C10_Witness ==
    /\ LoopRunEnded
    /\ pc = "completed"
    /\ initial_state["max_iterations"] = 2
    /\ Passes = 2
    /\ max_steps > 4

(* -------------------- properties of the graph ------------------------- *)
Targets(g) ==
    UNION {{g.edges[f][i].to : i \in 1..Len(g.edges[f])} : f \in DOMAIN g.edges}

RECURSIVE ReachFrom(_, _)
ReachFrom(g, S) ==
    LET T == S \cup UNION {{g.edges[f][i].to : i \in 1..Len(g.edges[f])} :
                           f \in S \cap DOMAIN g.edges}
    IN  IF T = S THEN S ELSE ReachFrom(g, T)

\* the nodes edges lead to from the start node
Reachable(g) ==
    IF g.start_node = None THEN {} ELSE ReachFrom(g, {g.start_node})
Unreachable(g) == (DOMAIN g.nodes \ Reachable(g)) \ {g.start_node}
\* the nodes other than the start node that no edge leads to
NoIncoming(g) == (DOMAIN g.nodes \ Targets(g)) \ {g.start_node}

WithMsg(fs, msgs) == {i \in 1..Len(fs) : fs[i].msg \in msgs}
Validated == call.op = "validate" /\ DOMAIN graph.nodes # {}

\* C16 as stated: validate reports the orphan finding for every node that
\* cannot be reached from the start node, and none when all are reachable.
C16_OrphansAreUnreachableOriginal ==
    Validated =>
        LET o == WithMsg(findings, {"Orphaned nodes"})
        IN  IF Unreachable(graph) = {} THEN o = {}
            ELSE \E i \in o : findings[i].nodes = Unreachable(graph)

\* C16 amended: validate reports one orphan finding that names exactly the
\* nodes, other than the start node, that are the target of no edge; a node
\* that is the target of an edge from itself or from an unreachable node is
\* not reported; every node reported is unreachable, and nothing is
\* reported when every node is reachable.
C16_OrphansHaveNoIncomingEdge ==
    Validated =>
        LET o == WithMsg(findings, {"Orphaned nodes"})
        IN  /\ Cardinality(o) = (IF NoIncoming(graph) = {} THEN 0 ELSE 1)
            /\ \A i \in o : /\ findings[i].nodes = NoIncoming(graph)
                            /\ findings[i].nodes \subseteq Unreachable(graph)
            /\ Unreachable(graph) = {} => o = {}

\* C16 witness: validate reported an orphan and left out a node that only
\* an edge from itself or from an unreachable node leads to
C16_Witness ==
    /\ Validated
    /\ \E i \in WithMsg(findings, {"Orphaned nodes"}) :
          /\ findings[i].nodes # {}
          /\ findings[i].nodes # Unreachable(graph)

StartMsgs == {"No start node set", "Start node not found in graph"}
StartDefect(g) == g.start_node = None \/ g.start_node \notin DOMAIN g.nodes
FromAbsent(g) == DOMAIN g.edges \ DOMAIN g.nodes
ToAbsent(g) ==
    {x \in (DOMAIN g.edges) \X (1..MaxEdges) :
        x[2] <= Len(g.edges[x[1]])
        /\ g.edges[x[1]][x[2]].to \notin DOMAIN g.nodes}
NoDefect(g) ==
    /\ ~StartDefect(g) /\ NoIncoming(g) = {}
    /\ FromAbsent(g) = {} /\ ToAbsent(g) = {}

\* every defect of g has its finding in fs, and fs has nothing else
AllReported(g, fs) ==
    /\ Cardinality(WithMsg(fs, StartMsgs)) = (IF StartDefect(g) THEN 1 ELSE 0)
    /\ Cardinality(WithMsg(fs, {"Orphaned nodes"}))
          = (IF NoIncoming(g) = {} THEN 0 ELSE 1)
    /\ \A f \in FromAbsent(g) :
          \E i \in WithMsg(fs, {"Edge from non-existent node"}) :
             fs[i].nodes = {f}
    /\ Cardinality(WithMsg(fs, {"Edge from non-existent node"}))
          = Cardinality(FromAbsent(g))
    /\ \A x \in ToAbsent(g) :
          \E i \in WithMsg(fs, {"Edge to non-existent node"}) :
             fs[i].nodes = {g.edges[x[1]][x[2]].to}
    /\ Cardinality(WithMsg(fs, {"Edge to non-existent node"}))
          = Cardinality(ToAbsent(g))
    /\ Len(fs) = (IF StartDefect(g) THEN 1 ELSE 0)
                 + (IF NoIncoming(g) = {} THEN 0 ELSE 1)
                 + Cardinality(FromAbsent(g)) + Cardinality(ToAbsent(g))

\* C17 as stated: validate returns a finding for every defect present
\* (start node missing or absent, orphaned node, edge from an absent node,
\* edge to an absent node), and the empty list for a graph with nodes and
\* no defect.
C17_AllFindingsOriginal ==
    call.op = "validate" =>
        /\ AllReported(graph, findings)
        /\ (NoDefect(graph) /\ DOMAIN graph.nodes # {}) => findings = <<>>

\* C17 amended: for a graph with at least one node validate returns a
\* finding for every defect present and the empty list when there is none;
\* for a graph without nodes it returns the single finding "Graph has no
\* nodes", whatever else is wrong with the graph.
C17_AllFindings ==
    call.op = "validate" =>
        IF DOMAIN graph.nodes = {}
        THEN findings = <<Finding("Graph has no nodes", {})>>
        ELSE /\ AllReported(graph, findings)
             /\ NoDefect(graph) <=> findings = <<>>

\* C17 witness: validate returned findings for three kinds of defect of
\* one graph
C17_Witness ==
    /\ Validated
    /\ StartDefect(graph) /\ NoIncoming(graph) # {} /\ ToAbsent(graph) # {}
    /\ Len(findings) >= 3

\* C18: add_node with a name already in the graph raises and leaves the
\* nodes, the edges and the start node as they were.
C18_DuplicateNodeRejected ==
    [][\A name \in BuildNames, function \in BuildFunctions :
          (AddNodeCall(name, function) /\ name \in DOMAIN graph.nodes)
             => /\ call'.raised # None
                /\ graph'.nodes = graph.nodes
                /\ graph'.edges = graph.edges
                /\ graph'.start_node = graph.start_node]_vars

\* C18 witness: add_node raised on a graph that has two nodes with
\* different functions and an edge
C18_Witness ==
    /\ call.op = "add_node" /\ call.raised # None
    /\ DOMAIN graph.edges # {}
    /\ \E a, b \in DOMAIN graph.nodes : graph.nodes[a] # graph.nodes[b]

\* C19: the start node is the first node add_node stored, unless a
\* set_start_node succeeded later: then it is the node of the last such
\* call; a call that raises and an add_node after the first leave it.
C19_StartNodeRule ==
    /\ [](graph.start_node
            = IF last_set # None THEN last_set ELSE first_added)
    /\ [][(call'.op \in {"add_node", "add_edge", "set_start_node"}
           /\ (call'.raised # None
               \/ (call'.op = "add_node" /\ graph.start_node # None)
               \/ call'.op = "add_edge"))
             => graph'.start_node = graph.start_node]_vars

\* C19 witness: after set_start_node moved the start node off the first
\* node, another node was added
C19_Witness ==
    /\ call.op = "add_node" /\ call.raised = None
    /\ last_set # None /\ last_set # first_added
    /\ graph.start_node = last_set

\* C20: add_edge raises when from_node or to_node is not in the graph and
\* then leaves the graph as it was, without a list for from_node; otherwise
\* it appends the edge at the end of the list of from_node and leaves the
\* other lists alone; no list of the edge table is ever empty.
C20_AddEdgeAppends ==
    /\ [](\A f \in DOMAIN graph.edges : graph.edges[f] # <<>>)
    /\ [][\A f \in BuildNames, t \in BuildNames, c \in BuildConditions :
            AddEdgeCall(f, t, c) =>
               IF f \in DOMAIN graph.nodes /\ t \in DOMAIN graph.nodes
               THEN /\ call'.raised = None
                    /\ DOMAIN graph'.edges = DOMAIN graph.edges \cup {f}
                    /\ graph'.edges[f]
                          = Append(EdgesOf(graph, f),
                                   [to |-> t, condition |-> c])
                    /\ \A f2 \in DOMAIN graph.edges \ {f} :
                          graph'.edges[f2] = graph.edges[f2]
                    /\ graph'.nodes = graph.nodes
                    /\ graph'.start_node = graph.start_node
               ELSE /\ call'.raised # None
                    /\ graph' = graph]_vars

\* C20 witness: a node has two edges to different nodes, in the order of
\* the calls, after an add_edge that raised
C20_Witness ==
    /\ call.op = "add_edge" /\ call.raised # None
    /\ \E f \in DOMAIN graph.edges :
          /\ Len(graph.edges[f]) = 2
          /\ graph.edges[f][1].to # graph.edges[f][2].to

(* -------------------- properties of runs with observers --------------- *)
\* what a call of execute leaves: how it ended, the trace, the objects the
\* trace and the final state refer to, the returned dictionary
Outcome == [pc |-> pc, error |-> error, execution_log |-> execution_log,
            heap |-> heap, result |-> result]
Ended == pc \in {"completed", "failed"}
Streams == Ended /\ run_id # None
OfType(type) == {i \in 1..Len(handed) : handed[i].type = type}

\* C11: whatever the observer side does (no client, sends that raise, the
\* manager missing, the connection set changing, delivery succeeding)
\* execute ends as it does with no run_id: same outcome, final state and
\* trace; a run fails with a node error only when its node or a condition
\* raised, never for a delivery.
C11_ObserverNeverChangesRun ==
    /\ Ended => Outcome = plain
    /\ (NodeError /\ Len(invoked) = step_number /\ step_number > 0)
          => \/ NodeRaised
             \/ GuardFaults(graph, current_node_name, state)

\* C11 witness: a run with a run_id completed after one of its events
\* reached a client, one was sent to a client whose connection raised, and
\* one found no client
C11_Witness ==
    /\ pc = "completed" /\ run_id # None
    /\ \E i, j, k \in 1..Len(handed) :
          /\ handed[i].sent > 0 /\ handed[i].lost = 0
          /\ handed[j].lost > 0
          /\ handed[k].via # "create_task"
          /\ handed[k].sent = 0 /\ handed[k].lost = 0

\* C12: emission does not block: while a run is in its loop every event it
\* handed off is still waiting to be delivered; the run has not waited for
\* any delivery to finish.
C12_EmissionNonBlocking ==
    (pc \in {"running", "routing"} /\ run_id # None)
        => /\ Len(tasks) = Len(handed)
           /\ \A i \in 1..Len(handed) : handed[i].via = "create_task"

\* C13: called with or without a running event loop execute ends as it
\* does with no run_id, and no event of the run is handed to the observer
\* more than once.
C13_SameInBothContexts ==
    /\ \A i, j \in 1..Len(handed) :
          (handed[i].type = handed[j].type
           /\ handed[i].step_number = handed[j].step_number) => i = j
    /\ Streams => /\ pc = plain.pc
                  /\ error = plain.error
                  /\ execution_log = plain.execution_log
                  /\ result = plain.result
                  /\ heap = plain.heap

\* C13 witness: a run inside a running event loop completed with the
\* events of two steps scheduled as tasks
C13_Witness ==
    /\ pc = "completed" /\ run_id # None /\ loop = "running"
    /\ step_number >= 2
    /\ \A n \in 1..step_number :
          \E i \in 1..Len(handed) :
             /\ handed[i].type = "step_complete"
             /\ handed[i].step_number = n
             /\ handed[i].via = "create_task"

\* C14: in every calling context a run with a run_id that completes hands
\* workflow_complete exactly once, as its last event, after the
\* step_complete of its last step; a run that fails never hands it.
C14_WorkflowCompleteOnce ==
    /\ (pc = "completed" /\ run_id # None)
          => /\ Cardinality(OfType("workflow_complete")) = 1
             /\ Last(handed).type = "workflow_complete"
             /\ step_number > 0
                   => /\ Len(handed) >= 2
                      /\ handed[Len(handed) - 1].type = "step_complete"
                      /\ handed[Len(handed) - 1].step_number = step_number
    /\ pc = "failed" => OfType("workflow_complete") = {}

\* C15: after a run failed with a node error or with the step bound error
\* the caller of the run has its trace: the run record holds an entry for
\* every entry of the trace, in order.
C15_TraceAfterFailure ==
    (workflow_run.status = "failed" /\ (NodeRaised \/ StepBoundError))
        => /\ Len(workflow_run.execution_logs) = Len(execution_log)
           /\ \A i \in 1..Len(execution_log) :
                 workflow_run.execution_logs[i]
                    = ExecutionLog(execution_log[i], heap)

(* ------------------- properties of the graph and the run -------------- *)
\* C21: after any sequence of add_node, add_edge and set_start_node calls,
\* raising or not, every edge leaves a node of the graph and enters a node
\* of the graph, and the start node is a node of the graph exactly when
\* the graph has a node (there is none in a graph without nodes).
C21_GraphWellFormed ==
    /\ DOMAIN graph.edges \subseteq DOMAIN graph.nodes
    /\ \A f \in DOMAIN graph.edges : \A i \in 1..Len(graph.edges[f]) :
          graph.edges[f][i].to \in DOMAIN graph.nodes
    /\ IF DOMAIN graph.nodes = {}
       THEN graph.start_node = None
       ELSE graph.start_node \in DOMAIN graph.nodes

\* C21 witness: a call has just raised on a graph of several nodes with
\* edges between different nodes, whose start node was moved
C21_Witness ==
    /\ call.op \in {"add_node", "add_edge", "set_start_node"}
    /\ call.raised # None
    /\ Cardinality(DOMAIN graph.nodes) >= 2
    /\ EdgeCount(graph) = MaxEdges
    /\ \E f \in DOMAIN graph.edges : graph.edges[f][1].to # f
    /\ graph.start_node # first_added

\* C22: a step that succeeds leaves as the run's state, and as the step's
\* state_after, exactly the dictionary the node's function returned: a key
\* of the state before that the function's result lacks is gone, nothing
\* of the state before is merged in.
C22_OutputReplacesState ==
    [][(pc = "running" /\ pc' = "routing") =>
          LET out == Function(graph.nodes[current_node_name],
                              to_dict(state), heap).data
          IN  /\ state' = out
              /\ Last(execution_log').state_after = out
              /\ DOMAIN state' = DOMAIN out
              /\ \A k \in DOMAIN state \ DOMAIN out :
                    k \notin DOMAIN Last(execution_log').state_after]_vars

\* C22 witness: the node that just ran returned a dictionary without a key
\* the state had before it
C22_Witness ==
    /\ pc = "routing"
    /\ "iterations" \in DOMAIN Last(execution_log).state_before
    /\ "iterations" \notin DOMAIN state
    /\ "max_iterations" \in DOMAIN state
    /\ Last(execution_log).state_after = state

\* C24: validate, the execution of a node and get_next_node leave the
\* graph as it was, nodes, edge lists and start node, in every step of an
\* execute call, whether it returns or raises.
C24_GraphUnchanged ==
    [][(pc \in {"validating", "running", "routing"}) => (graph' = graph)]_vars

\* C24 witness: a run of several steps has returned after get_next_node
\* was asked for the successor of a node without an edge list
C24_Witness ==
    /\ pc = "completed"
    /\ Len(invoked) >= 2
    /\ Last(invoked) \notin DOMAIN graph.edges
    /\ DOMAIN graph.edges # {}

\* C25: get_next_node for a step is called only when the step's node has
\* returned and its step is logged, with the state that node produced (the
\* step's state_after), not the state before it; the next node is invoked
\* only after that call, when every node invoked so far has its step in
\* the log, so no two nodes run at once.
C25_RoutingAfterNode ==
    /\ [](pc = "routing" =>
            /\ Len(execution_log) = Len(invoked)
            /\ Last(execution_log).node_name = current_node_name
            /\ Last(execution_log).step_number = step_number
            /\ Last(execution_log).error = None
            /\ state = Last(execution_log).state_after)
    /\ [][(pc = "routing" /\ pc' = "running") =>
            current_node_name'
               = get_next_node(graph, current_node_name,
                               Last(execution_log).state_after)]_vars
    /\ [][(Len(invoked') = Len(invoked) + 1) =>
            /\ pc = "running"
            /\ Len(execution_log) = Len(invoked)
            /\ Last(invoked') = current_node_name]_vars
    /\ [][(pc' = "routing") => (pc = "running")]_vars

\* C25 witness: the second node was chosen by a condition that is true of
\* the state the first node produced and false of the state before it
C25_Witness ==
    /\ pc = "running"
    /\ Len(execution_log) >= 1
    /\ LET s == Last(execution_log)
       IN  /\ get_next_node(graph, s.node_name, s.state_before) # Raise
           /\ get_next_node(graph, s.node_name, s.state_after)
                 # get_next_node(graph, s.node_name, s.state_before)
           /\ current_node_name
                 = get_next_node(graph, s.node_name, s.state_after)

\* why the step that ends a run in failure fails
FailureCause ==
    CASE pc = "validating" -> "validation"
      [] pc = "routing" -> "guard"
      [] pc = "running"
         /\ LoopCond(current_node_name, step_number, max_steps) -> "node"
      [] OTHER -> "step_bound"

\* the kind a caller reads off the exception: its class and message form
KindOf(e) ==
    CASE e.message = "Invalid graph" -> <<e.type, "validation">>
      [] e.message = "Error executing node" -> <<e.type, "node">>
      [] OTHER -> <<e.type, "step_bound">>

\* C26 as stated: a validation failure, a node failure, a guard failure
\* and a step-bound failure each reach the caller of execute as a failure
\* value of a kind of its own.
C26_FailureKindsOriginal ==
    [][(pc # "failed" /\ pc' = "failed")
          => KindOf(exception') = <<"ValueError", FailureCause>>]_vars

\* C26: every failure of execute reaches the caller as a ValueError; the
\* message is "Invalid graph" for a validation failure, "Workflow exceeded
\* maximum steps" for the step bound and "Error executing node" for a node
\* failure and for a guard failure alike.
C26_FailureMessages ==
    [][(pc # "failed" /\ pc' = "failed")
          => /\ exception'.type = "ValueError"
             /\ exception'.message
                  = CASE FailureCause = "validation" -> "Invalid graph"
                      [] FailureCause \in {"node", "guard"}
                            -> "Error executing node"
                      [] OTHER -> "Workflow exceeded maximum steps"]_vars

\* C26 witness: execute raised for a condition that raised, after a step
\* whose node had returned
C26_Witness ==
    /\ pc = "failed"
    /\ exception.message = "Error executing node"
    /\ Len(execution_log) = Len(invoked) + 1
    /\ execution_log[Len(invoked)].error = None

\* C27: get_next_node leaves the state of the run as it was, same keys
\* and same values, whatever the conditions it evaluates do with the
\* dictionary they are given.
C27_GuardReadOnly ==
    [][(pc = "routing")
          => /\ DOMAIN state' = DOMAIN state
             /\ Deep(state', heap') = Deep(state, heap)]_vars

SendEnded == sending.pc \in {"returned", "raised"}

\* C29: when send_log(run_id, m) ends, every connection that was in the
\* set of run_id at the call and stayed there, and whose send did not
\* raise, has been sent m; m went to no connection that was never in the
\* set of run_id; and a call for a run_id without a set returns at once
\* and leaves the connection sets as they are.
C29_SendLogDelivers ==
    /\ [](SendEnded =>
            /\ \A ws \in sending.at_call
                           \ (sending.left \cup sending.disconnected) :
                  ws \in delivered
            /\ delivered \subseteq sending.at_call \cup sending.joined)
    /\ [][\A rid \in SendRunIds :
            (SendLog(rid) /\ rid \notin DOMAIN active_connections)
               => /\ sending'.pc = "returned"
                  /\ delivered' = {}
                  /\ active_connections' = active_connections]_vars

\* the status of the run record
Status == workflow_run.status

\* C30: the asynchronous endpoint stores the run as pending and returns
\* without a step of the executor; the background task stores running
\* before execute validates or runs a node, then completed when execute
\* returned and failed when it raised; a completed or failed run keeps its
\* status.
C30_RunStatus ==
    /\ [](Status = "pending" => (pc = "idle" /\ invoked = <<>>))
    /\ [](pc \in {"validating", "running", "routing"}
             => Status = "running")
    /\ [][(Status = None /\ Status' # None)
             => (Status' = "pending" /\ pc' = pc /\ invoked' = invoked)]_vars
    /\ [][(Status = "pending" /\ Status' # Status)
             => (Status' = "running" /\ invoked' = <<>>)]_vars
    /\ [][(Status = "running" /\ Status' # Status)
             => \/ Status' = "completed" /\ pc = "completed"
                \/ Status' = "failed" /\ pc = "failed"]_vars
    /\ [][(Status \in {"completed", "failed"})
             => (workflow_run' = workflow_run)]_vars
    /\ (Status = "pending") ~> (Status \in {"completed", "failed"})

\* C30 witness: a run of several steps that failed is stored as failed and
\* a client connected afterwards
C30_Witness ==
    /\ Status = "failed"
    /\ call.op = "run_graph_async"
    /\ Len(invoked) >= 2
    /\ workflow_run.error_message = "Error executing node"
    /\ active_connections # EmptyMap

\* what a caller sees of run p once execute has ended: outcome, message,
\* trace and result, lists read through the heap h
PairOutcome(o, log, h) ==
    [pc |-> o.pc, error |-> o.error,
     trace |-> [i \in 1..Len(log) |-> ExecutionLog(log[i], h)],
     result |-> IF o.pc = "completed"
                THEN <<Deep(o.result.final_state, h),
                       o.result.steps_executed,
                       [i \in 1..Len(o.result.execution_log) |->
                           ExecutionLog(o.result.execution_log[i], h)]>>
                ELSE <<>>]

PairEnded(p) == runs[p].pc \in {"completed", "failed"}

\* C23: whatever the order of the steps of two runs with executors of
\* their own, on one graph or on two, a run ends with the outcome, final
\* state and trace it has when it is executed alone; nothing of the other
\* run is in its state or trace.
C23_RunsIndependent ==
    \A p \in Runs :
       PairEnded(p) =>
          PairOutcome(runs[p], get_execution_log(runs, p), heap)
             = PairOutcome(runs[p].plain, runs[p].plain.execution_log,
                           runs[p].plain.heap)

\* C23 witness: two runs on the same graph, with different initial
\* states, have ended differently after steps of each were taken in the
\* middle of the other
C23_Witness ==
    /\ \A p \in Runs : PairEnded(p) /\ runs[p].interleaved
    /\ runs[1].graph = runs[2].graph
    /\ runs[1].pc = "completed" /\ runs[2].pc = "failed"
    /\ runs[1].step_number >= 2 /\ runs[2].step_number >= 2

(* --------------------- properties of the trace ------------------------ *)
\* a call of execute is past validation, in progress or ended
PastValidation == pc \in {"running", "routing"} \/ RunEnded

\* the node names of the trace, in order
TraceNodes == [i \in 1..Len(execution_log) |-> execution_log[i].node_name]

\* C31: the trace is the path of the graph: its first entry is for the
\* start node and each later entry is for the node get_next_node gives for
\* the node and state_after of the entry before it; the run of the chain
\* count -> append -> drop without conditions ends successfully with
\* exactly these three entries and no current node.
C31_TraceIsPath ==
    PastValidation =>
       /\ execution_log # <<>>
             => execution_log[1].node_name = graph.start_node
       /\ \A i \in 1..(Len(execution_log) - 1) :
             execution_log[i + 1].node_name
                = get_next_node(graph, execution_log[i].node_name,
                                execution_log[i].state_after)
       /\ (graph = LinearGraph /\ RunEnded /\ max_steps >= 3)
             => /\ pc = "completed"
                /\ TraceNodes = <<"count", "append", "drop">>
                /\ current_node_name = None

\* C32: the entries of the trace chain: the first state_before is the
\* initial state and the state_before of every later entry is the
\* state_after of the entry before it, also in a run that ends with the
\* error of a node or of a condition.
C32_TraceChains ==
    PastValidation =>
       /\ execution_log # <<>>
             => execution_log[1].state_before = to_dict(initial_state)
       /\ \A i \in 1..(Len(execution_log) - 1) :
             execution_log[i + 1].state_before
                = execution_log[i].state_after

\* the entries of the trace that carry an error
ErrorEntries == {i \in 1..Len(execution_log) : execution_log[i].error # None}

\* C33: the trace has at most one entry with an error, and only as its
\* last entry; once execute has ended the trace has such an entry exactly
\* when execute raised for a node or a condition, not when it raised for
\* the step bound or for an invalid graph, and not when it returned.
C33_OneErrorEntryLast ==
    /\ Cardinality(ErrorEntries) <= 1
    /\ ErrorEntries \subseteq {Len(execution_log)}
    /\ (pc \in {"completed", "failed"})
          => (ErrorEntries # {} <=> NodeError)

LastStep == execution_log[Len(execution_log)]

\* C34: when execute returns a success result, steps_executed is the number
\* of trace entries, no trace entry has an error, final_state is the
\* state_after of the last trace entry, and no edge leaves the last node on
\* that final state.
C34_SuccessResult ==
    pc = "completed" =>
       /\ execution_log # <<>>
       /\ result.steps_executed = Len(execution_log)
       /\ result.execution_log = execution_log
       /\ ErrorEntries = {}
       /\ result.final_state = LastStep.state_after
       /\ get_next_node(graph, LastStep.node_name, result.final_state) = None

\* a run of several steps returned a success result whose last node changed
\* the state
C34_Witness ==
    /\ pc = "completed"
    /\ Len(execution_log) >= 2
    /\ LastStep.state_after # LastStep.state_before
    /\ graph.edges[LastStep.node_name] # <<>>

(* --------------------- properties of the emitted events --------------- *)
\* C35: for each step number of a run the observer is handed at most one
\* of step_complete and error: no step is reported both as completed and
\* as an error, and no step_complete follows an error event.
C35_OneEventPerStep ==
    \A i, j \in 1..Len(handed) :
       /\ (handed[i].type = "step_complete" /\ handed[j].type = "error")
             => handed[i].step_number # handed[j].step_number
       /\ (handed[i].type = "error" /\ handed[j].type = "step_complete")
             => j < i

(* ------------------ properties of the connection manager -------------- *)
\* a client connected to or disconnected from the run of the send_log call
\* while the call was suspended in a delivery
Churn == sending.joined # {} \/ sending.left # {}

\* C36: send_log is never ended by an exception part-way through its
\* deliveries, and when a client connects to or disconnects from the run
\* during the call, every client that was connected for the run at the
\* call and stayed connected has still been sent the message.
C36_BroadcastSurvivesChurn ==
    /\ sending.pc # "raised"
    /\ (sending.pc = "returned" /\ Churn)
          => \A ws \in sending.at_call \ sending.left :
                ws \in sending.visited

\* the step in which a send_log call returns after its deliveries
SendReturns == Iterating /\ sending'.pc = "returned"

\* C37: when send_log returns, the clients it removed from the set of the
\* run are exactly the clients whose send raised; every client whose send
\* went through and that did not disconnect by itself is still connected,
\* and the sets of the other runs are as they were.
C37_FailedClientsRemoved ==
    [][SendReturns =>
          LET rid == sending.run_id
              before == Clients(active_connections, rid)
              after == Clients(active_connections', rid)
          IN  /\ after = before \ sending'.disconnected
              /\ (delivered' \ sending'.left) \subseteq after
              /\ \A r \in SendRunIds \ {rid} :
                    Clients(active_connections', r)
                       = Clients(active_connections, r)]_vars

\* C37 witness: a send_log call has returned after one send raised and one
\* went through, with a client of another run connected: the first client
\* is gone, the second and the client of the other run are connected
C37_Witness ==
    /\ sending.pc = "returned"
    /\ sending.disconnected # {} /\ delivered # {}
    /\ sending.disconnected \cap Connected(active_connections) = {}
    /\ delivered \subseteq Clients(active_connections, sending.run_id)
    /\ \E r \in SendRunIds \ {sending.run_id} :
          Clients(active_connections, r) # {}

\* the connection counts of all runs
Counts(ac) == [r \in SendRunIds |-> get_connection_count(ac, r)]

\* C38: no run_id is ever mapped to an empty set; get_connection_count of
\* a run is the number of clients that connected for it and were not
\* removed since: 0 at the start and for a run without a set, one more
\* after a connect, one less after a disconnect, less by the removed
\* clients after send_log, the same otherwise; and disconnect of a run or
\* client that is not connected changes nothing.
C38_ConnectionCounts ==
    /\ [](/\ \A r \in DOMAIN active_connections :
                active_connections[r] # {}
          /\ \A r \in SendRunIds :
                r \notin DOMAIN active_connections
                   => get_connection_count(active_connections, r) = 0
          /\ \A r \in SendRunIds, ws \in SendConns :
                ws \notin Clients(active_connections, r)
                   => disconnect(active_connections, r, ws)
                         = active_connections)
    /\ [][\A rid \in SendRunIds, ws \in SendConns :
            /\ SendConnect(rid, ws)
                  => Counts(active_connections')
                        = [Counts(active_connections) EXCEPT ![rid] = @ + 1]
            /\ SendDisconnect(rid, ws)
                  => Counts(active_connections')
                        = [Counts(active_connections) EXCEPT ![rid] = @ - 1]]_vars
    /\ [][SendReturns
            => Counts(active_connections')
                  = [Counts(active_connections) EXCEPT
                       ![sending.run_id] = @ - Cardinality(
                           sending'.disconnected
                              \cap Clients(active_connections,
                                           sending.run_id))]]_vars
    /\ [][(\E rid \in SendRunIds : SendLog(rid))
             \/ (SendNext /\ sending'.pc # "returned")
            => active_connections' = active_connections]_vars

\* C38 witness: send_log has returned after it removed the last client of
\* its run, whose set is gone, while another run counts two clients
C38_Witness ==
    /\ sending.pc = "returned" /\ sending.disconnected # {}
    /\ sending.run_id \notin DOMAIN active_connections
    /\ \E r \in SendRunIds :
          get_connection_count(active_connections, r) = 2

(* ------------------- properties of the stored graphs ------------------ *)
\* the definition of the stored graph
StoredNodes == json_loads(db_graphs[1].nodes)
StoredEdges == json_loads(db_graphs[1].edges)

\* C39: a graph definition that create_graph stored is built by run_graph
\* without an error of add_node or add_edge and passes the validation of
\* execute; no stored definition has two nodes of one name or a node,
\* other than the first, that no edge leads to.
C39_AcceptedGraphsStart ==
    /\ call.op = "run_graph" => call.raised = None
    /\ call.op = "run_graph" => ~(pc = "failed" /\ error = "Invalid graph")
    /\ db_graphs # <<>>
          => /\ \A i, j \in 1..Len(StoredNodes) :
                   StoredNodes[i].name = StoredNodes[j].name => i = j
             /\ \A i \in 2..Len(StoredNodes) :
                   \E e \in 1..Len(StoredEdges) :
                      StoredEdges[e].to_node = StoredNodes[i].name

(* --------------------- properties of the run record ------------------- *)
\* C40: a run record with status completed holds one execution log for
\* each entry of the trace, in order and numbered 1..n, and the final
\* state as its state; a record with status failed holds an error
\* message; a record with status completed or failed holds the time of
\* completion.
C40_RunRecord ==
    /\ Status = "completed"
          => /\ Len(workflow_run.execution_logs) = Len(execution_log)
             /\ \A i \in 1..Len(execution_log) :
                   /\ workflow_run.execution_logs[i]
                         = ExecutionLog(execution_log[i], heap)
                   /\ workflow_run.execution_logs[i].step_number = i
             /\ json_loads(workflow_run.current_state)
                   = Deep(result.final_state, heap)
    /\ Status = "failed" => workflow_run.error_message # None
    /\ Status \in {"completed", "failed"}
          => workflow_run.completed_at # None

====
